---- MODULE Spec2Model ----
(***************************************************************************)
(* Tuition ledger and enrollment consistency of the students-node service. *)
(*                                                                         *)
(* The persisted state is the PostgreSQL content the handlers of           *)
(* students-node/app/main.py read and write: the payments table, the       *)
(* tuition_paid column of the students table, the enrollments table and    *)
(* the partial unique index db_maintenance.py creates at startup.          *)
(* Amounts are whole currency units.                                       *)
(***************************************************************************)
EXTENDS Integers, FiniteSets, Sequences, TLC

VARIABLES
    payments,       \* payments table: payment id -> row, NoPayment when absent
    tuition_paid,   \* students.tuition_paid: student id -> amount
    last,           \* the request that completed last: operation and outcome
    nops,           \* requests served so far
    reqs,           \* in-flight payment requests: process -> handler state
    enrollments,    \* enrollments table: id -> row, NoEnrollment when absent
    uniqueIndex,    \* idx_unique_active_enrollment_per_student exists
    started,        \* the startup event has run
    ereqs,          \* in-flight create_enrollment requests
    clock,          \* datetime.utcnow() as a counter
    students,       \* students table: student id -> row, NoStudent when absent
    log,            \* the lines the handlers have printed
    sessions,       \* payments.payment_date and payments.academic_year by payment id
    intents         \* payments-fastapi: the stripe_payments table by intent id

vars == <<payments, tuition_paid, last, nops, reqs, enrollments, uniqueIndex,
          started, ereqs, clock, students, log, sessions, intents>>

----------------------------------------------------------------------------
(* Bounds of the model *)

MaxOps == 2             \* requests served in one behaviour
MaxEnrollOps == 2       \* enrollment requests served in one behaviour
MaxClock == 1           \* the last instant datetime.utcnow() returns

Students == {"s1", "s2"}
Amounts == {1, 2}
PaymentTypes == {"tuition", "other"}
PaymentStatuses == {"pending", "paid", "cancelled", "refunded"}
TransactionIds == {"pi_1"}
NULL == "NULL"
\* a request creates at most one row; the last id stays free for the request
\* a property applies to a final state
PaymentIds == 1..(MaxOps + 1)

\* a students row, as far as the tuition goes
NoStudent == [tuition_amount |-> -1]

\* every student of the model is registered, with a tuition of 2
AllStudents == [s \in Students |-> [tuition_amount |-> 2]]

NoPayment ==
    [student_id |-> "-", amount |-> 0, payment_type |-> "-",
     status |-> "-", transaction_id |-> "-"]

Max(a, b) == IF a >= b THEN a ELSE b

----------------------------------------------------------------------------
(* Request payloads: a payload is a function whose domain is the set of   *)
(* keys the JSON body carries.                                             *)

Opt(key, values) == {<<>>} \cup {key :> v : v \in values}

CreatePayloads ==
    {[studentId |-> s, amount |-> a, paymentType |-> t, paymentMethod |-> "cash"]
        @@ st @@ tx :
        s \in Students, a \in Amounts, t \in PaymentTypes,
        st \in Opt("status", PaymentStatuses),
        tx \in Opt("transactionId", TransactionIds)}

\* required = ['studentId', 'amount', 'paymentType', 'paymentMethod']
RequiredCreateFields == {"studentId", "amount", "paymentType", "paymentMethod"}

\* the body of a paid tuition payment with one of the required keys left out
IncompleteCreatePayloads ==
    {[k \in (DOMAIN p) \ {m} |-> p[k]] :
        p \in {q \in CreatePayloads :
                    q["paymentType"] = "tuition" /\ "status" \in DOMAIN q /\ q["status"] = "paid"},
        m \in RequiredCreateFields}

Get(payload, key, default) ==
    IF key \in DOMAIN payload THEN payload[key] ELSE default

----------------------------------------------------------------------------
(* Ledger queries *)

Exists(pays, id) == pays[id] # NoPayment

\* uuid4(): an id no row carries; the least one stands for any of them
NewId(pays) ==
    CHOOSE i \in PaymentIds : ~Exists(pays, i) /\ \A j \in 1..(i - 1) : Exists(pays, j)

\* db.query(Payment).filter(Payment.transaction_id == t).first()
FindByTransactionId(pays, t) == {i \in PaymentIds : Exists(pays, i) /\ pays[i].transaction_id = t}

\* a payments table without the unique constraint
NoUniqueConstraint(pays, id) == TRUE

\* unique=True on Payment.transaction_id, for the row written: NULLs never
\* collide
TransactionIdUnique(pays, id) ==
    \/ pays[id].transaction_id = NULL
    \/ \A j \in PaymentIds \ {id} : pays[j].transaction_id # pays[id].transaction_id

RECURSIVE SumOver(_, _)
SumOver(pays, ids) ==
    IF ids = {} THEN 0
    ELSE LET i == CHOOSE x \in ids : TRUE
         IN pays[i].amount + SumOver(pays, ids \ {i})

\* sum(p.amount for p in ledger(S) if p.type == tuition and p.status == paid)
LedgerSum(pays, s) ==
    SumOver(pays, {i \in PaymentIds : /\ Exists(pays, i)
                                      /\ pays[i].student_id = s
                                      /\ pays[i].payment_type = "tuition"
                                      /\ pays[i].status = "paid"})

Result(pays, paid, code) == [payments |-> pays, tuition_paid |-> paid, code |-> code]

----------------------------------------------------------------------------
(* create_payment *)

\* create_payment adding the amount of every tuition payment, paid or not
CreatePaymentCommitAnyStatus(pays, paid, payload, bal) ==
    LET id == NewId(pays)
        row == [student_id |-> payload["studentId"],
                amount |-> payload["amount"],
                payment_type |-> payload["paymentType"],
                status |-> Get(payload, "status", "pending"),
                transaction_id |-> Get(payload, "transactionId", NULL)]
        pays2 == [pays EXCEPT ![id] = row]
        paid2 == IF payload["paymentType"] = "tuition"
                 THEN [paid EXCEPT ![payload["studentId"]] = bal + payload["amount"]]
                 ELSE paid
    IN IF TransactionIdUnique(pays2, id)
       THEN [payments |-> pays2, tuition_paid |-> paid2, code |-> "200"]
       ELSE [payments |-> pays, tuition_paid |-> paid, code |-> "500"]

\* db.add(payment); the balance increment computed from the balance read;
\* db.commit(), which the unique constraint can refuse (rollback, 500)
CreatePaymentCommit(pays, paid, payload, bal) ==
    LET id == NewId(pays)
        row == [student_id |-> payload["studentId"],
                amount |-> payload["amount"],
                payment_type |-> payload["paymentType"],
                status |-> Get(payload, "status", "pending"),
                transaction_id |-> Get(payload, "transactionId", NULL)]
        pays2 == [pays EXCEPT ![id] = row]
        paid2 == IF payload["paymentType"] = "tuition" /\ Get(payload, "status", NULL) = "paid"
                 THEN [paid EXCEPT ![payload["studentId"]] = bal + payload["amount"]]
                 ELSE paid
    IN IF TransactionIdUnique(pays2, id)
       THEN Result(pays2, paid2, "200")
       ELSE Result(pays, paid, "500")

\* create_payment not asking for paymentMethod
CreatePaymentValidWithoutMethod(payload) ==
    {"studentId", "amount", "paymentType"} \subseteq DOMAIN payload

\* required = ['studentId', 'amount', 'paymentType', 'paymentMethod']
CreatePaymentValid(payload) ==
    {"studentId", "amount", "paymentType", "paymentMethod"} \subseteq DOMAIN payload

\* the balance is queried only for a tuition payment created as paid
CreatePaymentReadsStudent(payload) ==
    payload["paymentType"] = "tuition" /\ Get(payload, "status", NULL) = "paid"

\* the whole handler, run without interruption
CreatePaymentFn(pays, paid, payload) ==
    IF ~CreatePaymentValid(payload)
    THEN Result(pays, paid, "400")
    ELSE CreatePaymentCommit(pays, paid, payload, paid[payload["studentId"]])

----------------------------------------------------------------------------
(* update_payment *)

UpdatePayloads ==
    {s @@ a @@ t @@ st @@ tx :
        s \in Opt("studentId", Students), a \in Opt("amount", Amounts),
        t \in Opt("paymentType", PaymentTypes),
        st \in Opt("status", PaymentStatuses),
        tx \in Opt("transactionId", TransactionIds \cup {NULL})}

\* the field assignments of lines 1379-1390
UpdatedRow(old, payload) ==
    [student_id |-> Get(payload, "studentId", old.student_id),
     amount |-> Get(payload, "amount", old.amount),
     payment_type |-> Get(payload, "paymentType", old.payment_type),
     status |-> Get(payload, "status", old.status),
     transaction_id |-> Get(payload, "transactionId", old.transaction_id)]

\* update_payment adding the new amount without retiring the old one
UpdatedBalanceKeepsOld(paid, old, new) ==
    IF new.payment_type = "tuition" /\ new.status = "paid"
    THEN [paid EXCEPT ![new.student_id] = @ + new.amount]
    ELSE paid

\* "RECALCUL AUTOMATIQUE DU SOLDE": the balance of the row's (new) student,
\* less the old amount if the old status was paid, plus the new amount if the
\* status is now paid; only when the (new) type is tuition
UpdatedBalance(paid, old, new) ==
    IF new.payment_type = "tuition"
    THEN LET b1 == IF old.status = "paid"
                   THEN paid[new.student_id] - old.amount
                   ELSE paid[new.student_id]
             b2 == IF new.status = "paid" THEN b1 + new.amount ELSE b1
         IN [paid EXCEPT ![new.student_id] = b2]
    ELSE paid

UpdatePaymentFn(pays, paid, id, payload) ==
    IF ~Exists(pays, id)
    THEN Result(pays, paid, "404")
    ELSE LET old == pays[id]
             new == UpdatedRow(old, payload)
             pays2 == [pays EXCEPT ![id] = new]
         IN IF TransactionIdUnique(pays2, id)
            THEN Result(pays2, UpdatedBalance(paid, old, new), "200")
            ELSE Result(pays, paid, "500")

----------------------------------------------------------------------------
(* delete_payment *)

DeletePaymentReadsStudent(row) ==
    row.payment_type = "tuition" /\ row.status = "paid"

\* db.delete(payment); db.commit(), with the balance written from the
\* balance read: max(0, balance - amount)
DeletePaymentCommit(pays, paid, id, row, bal) ==
    LET paid2 == IF DeletePaymentReadsStudent(row)
                 THEN [paid EXCEPT ![row.student_id] = Max(0, bal - row.amount)]
                 ELSE paid
    IN Result([pays EXCEPT ![id] = NoPayment], paid2, "200")

DeletePaymentFn(pays, paid, id) ==
    IF ~Exists(pays, id)
    THEN Result(pays, paid, "404")
    ELSE DeletePaymentCommit(pays, paid, id, pays[id], paid[pays[id].student_id])

----------------------------------------------------------------------------
(* confirm_stripe_payment and stripe_webhook *)

\* the UPDATE of a row another transaction deleted matches no row: the
\* flush raises and the transaction is rolled back
MarkPaid(pays, id) == [pays EXCEPT ![id].status = "paid"]

\* confirm_stripe_payment adding the amount of a payment of any type
ConfirmCommitAnyType(pays, paid, id, row, bal) ==
    IF ~Exists(pays, id)
    THEN Result(pays, paid, "500")
    ELSE Result(MarkPaid(pays, id), [paid EXCEPT ![row.student_id] = bal + row.amount], "200")

\* payment.status = 'paid'; tuition_paid = balance read + amount for a
\* tuition payment; db.commit()
ConfirmCommit(pays, paid, id, row, bal) ==
    IF ~Exists(pays, id)
    THEN Result(pays, paid, "500")
    ELSE Result(MarkPaid(pays, id),
                IF row.payment_type = "tuition"
                THEN [paid EXCEPT ![row.student_id] = bal + row.amount]
                ELSE paid,
                "200")

\* "Vérifier que le paiement n'est pas déjà confirmé"
AlreadyConfirmed(row) == row.status = "paid"

ConfirmStripePaymentFn(pays, paid, t) ==
    LET found == FindByTransactionId(pays, t)
    IN IF found = {}
       THEN Result(pays, paid, "404")
       ELSE LET id == CHOOSE i \in found : TRUE
            IN IF AlreadyConfirmed(pays[id])
               THEN Result(pays, paid, "already_confirmed")
               ELSE ConfirmCommit(pays, paid, id, pays[id], paid[pays[id].student_id])

Succeeded == "payment_intent.succeeded"
\* the event the handler acts on, and two of the types it does not know
WebhookEventTypes == {Succeeded, "payment_intent.payment_failed", "charge.refunded"}

WebhookCommit(pays, paid, id, row, bal) ==
    IF ~Exists(pays, id)
    THEN Result(pays, paid, "error")
    ELSE Result(MarkPaid(pays, id),
                IF row.payment_type = "tuition"
                THEN [paid EXCEPT ![row.student_id] = bal + row.amount]
                ELSE paid,
                "200")

\* stripe_webhook cancelling the payment of a failed payment intent
StripeWebhookCancellingFailed(pays, paid, type, t) ==
    LET found == FindByTransactionId(pays, t)
    IN IF found = {} \/ type = "charge.refunded"
       THEN Result(pays, paid, "200")
       ELSE LET id == CHOOSE i \in found : TRUE
            IN IF type = Succeeded
               THEN WebhookCommit(pays, paid, id, pays[id], paid[pays[id].student_id])
               ELSE Result([pays EXCEPT ![id].status = "cancelled"], paid, "200")

\* if event_type == 'payment_intent.succeeded': ...; every other event falls
\* through to return {"status": "success"}
StripeWebhookFn(pays, paid, type, t) ==
    LET found == FindByTransactionId(pays, t)
    IN IF type # Succeeded \/ found = {}
       THEN Result(pays, paid, "200")
       ELSE LET id == CHOOSE i \in found : TRUE
            IN WebhookCommit(pays, paid, id, pays[id], paid[pays[id].student_id])

----------------------------------------------------------------------------
(* The handlers as requests served one at a time *)

Apply(op, r) ==
    /\ nops' = nops + 1
    /\ payments' = r.payments
    /\ tuition_paid' = r.tuition_paid
    /\ last' = [op |-> op, code |-> r.code, detail |-> "-"]
    /\ UNCHANGED <<reqs, enrollments, uniqueIndex, started, ereqs, clock, students, log, sessions, intents>>

CreatePayment ==
    /\ nops < MaxOps
    /\ \E payload \in CreatePayloads \cup IncompleteCreatePayloads :
        Apply("create_payment", CreatePaymentFn(payments, tuition_paid, payload))

\* a key that carries the row's current value has the effect of the key
\* absent: update payloads are enumerated up to that
Column ==
    [studentId |-> "student_id", amount |-> "amount", paymentType |-> "payment_type",
     status |-> "status", transactionId |-> "transaction_id"]

Changes(row, payload) == \A k \in DOMAIN payload : payload[k] # row[Column[k]]

UpdatePayment ==
    /\ nops < MaxOps
    /\ \E id \in PaymentIds, payload \in UpdatePayloads :
        /\ IF Exists(payments, id) THEN Changes(payments[id], payload) ELSE payload = <<>>
        /\ Apply("update_payment", UpdatePaymentFn(payments, tuition_paid, id, payload))

DeletePayment ==
    /\ nops < MaxOps
    /\ \E id \in PaymentIds :
        Apply("delete_payment", DeletePaymentFn(payments, tuition_paid, id))

ConfirmStripePayment ==
    /\ nops < MaxOps
    /\ \E t \in TransactionIds :
        Apply("confirm_stripe_payment", ConfirmStripePaymentFn(payments, tuition_paid, t))

StripeWebhook ==
    /\ nops < MaxOps
    /\ \E type \in WebhookEventTypes, t \in TransactionIds :
        Apply("stripe_webhook", StripeWebhookFn(payments, tuition_paid, type, t))

NoLast == [op |-> "none", code |-> "-", detail |-> "-"]

Init ==
    /\ payments = [i \in PaymentIds |-> NoPayment]
    /\ tuition_paid = [s \in Students |-> 0]
    /\ last = NoLast
    /\ nops = 0
    /\ reqs = <<>>
    /\ enrollments = <<>>
    /\ uniqueIndex = FALSE
    /\ started = FALSE
    /\ ereqs = <<>>
    /\ clock = 0
    /\ students = AllStudents
    /\ log = {}
    /\ sessions = <<>>
    /\ intents = <<>>

Next ==
    \/ CreatePayment
    \/ UpdatePayment
    \/ DeletePayment
    \/ ConfirmStripePayment
    \/ StripeWebhook

Spec == Init /\ [][Next]_vars

----------------------------------------------------------------------------
(* The payment handlers as concurrent requests.  Each request has its own  *)
(* database session (SessionLocal, READ COMMITTED): a query sees what is   *)
(* committed when it runs, an attribute assignment stays in the session    *)
(* until db.commit() writes it.  Between two statements of one request any *)
(* statement of another request may run.                                   *)

Procs == {"p1", "p2"}

EmptyLedger == [i \in PaymentIds |-> NoPayment]
ZeroBalances == [s \in Students |-> 0]

IdleReq ==
    [op |-> "none", pc |-> "idle", arg |-> <<>>, id |-> 0,
     row |-> NoPayment, bal |-> 0, code |-> "-"]

\* the requests that race: on the rows and the balance of one student
RaceSetupPayloads == {pl \in CreatePayloads : pl["studentId"] = "s1"}
RaceCreatePayloads ==
    {pl \in CreatePayloads : /\ pl["studentId"] = "s1"
                              /\ pl["paymentType"] = "tuition"
                              /\ "transactionId" \notin DOMAIN pl}

Done(req, code) == [req EXCEPT !.pc = "done", !.code = code]

\* create_payment up to its first query
BeginCreate(payload) ==
    LET req == [IdleReq EXCEPT !.op = "create_payment", !.arg = payload]
    IN IF ~CreatePaymentValid(payload) THEN Done(req, "400")
       ELSE IF CreatePaymentReadsStudent(payload)
            THEN [req EXCEPT !.pc = "read_student"]
            ELSE [req EXCEPT !.pc = "commit"]

\* delete_payment up to the payment found
BeginDelete(pays, id) ==
    LET req == [IdleReq EXCEPT !.op = "delete_payment", !.id = id,
                               !.arg = [payment_id |-> id]]
    IN IF ~Exists(pays, id) THEN Done(req, "404")
       ELSE [req EXCEPT !.row = pays[id],
                        !.pc = IF DeletePaymentReadsStudent(pays[id])
                               THEN "read_student" ELSE "commit"]

\* confirm_stripe_payment up to the status check
BeginConfirm(pays, t) ==
    LET req == [IdleReq EXCEPT !.op = "confirm_stripe_payment",
                               !.arg = [paymentIntentId |-> t]]
        found == FindByTransactionId(pays, t)
    IN IF found = {} THEN Done(req, "404")
       ELSE LET id == CHOOSE i \in found : TRUE
            IN IF AlreadyConfirmed(pays[id])
               THEN Done([req EXCEPT !.id = id, !.row = pays[id]], "already_confirmed")
               ELSE [req EXCEPT !.id = id, !.row = pays[id], !.pc = "read_student"]

\* stripe_webhook up to the payment found
BeginWebhook(pays, type, t) ==
    LET req == [IdleReq EXCEPT !.op = "stripe_webhook",
                               !.arg = [type |-> type, id |-> t]]
        found == FindByTransactionId(pays, t)
    IN IF type # Succeeded \/ found = {} THEN Done(req, "200")
       ELSE LET id == CHOOSE i \in found : TRUE
            IN [req EXCEPT !.id = id, !.row = pays[id],
                           !.pc = IF pays[id].payment_type = "tuition"
                                  THEN "read_student" ELSE "commit"]

\* the student whose row the request reads and writes
ReqStudent(req) ==
    IF req.op = "create_payment" THEN req.arg["studentId"] ELSE req.row.student_id

\* db.commit() of the request, with the balance it read
CommitOf(pays, paid, req) ==
    IF req.op = "create_payment"
    THEN CreatePaymentCommit(pays, paid, req.arg, req.bal)
    ELSE IF req.op = "delete_payment"
    THEN DeletePaymentCommit(pays, paid, req.id, req.row, req.bal)
    ELSE IF req.op = "confirm_stripe_payment"
    THEN ConfirmCommit(pays, paid, req.id, req.row, req.bal)
    ELSE WebhookCommit(pays, paid, req.id, req.row, req.bal)

RaceBegin(p) ==
    /\ reqs[p].pc = "idle"
    /\ \/ \E payload \in RaceCreatePayloads :
            reqs' = [reqs EXCEPT ![p] = BeginCreate(payload)]
       \/ \E id \in PaymentIds :
            reqs' = [reqs EXCEPT ![p] = BeginDelete(payments, id)]
       \/ \E t \in TransactionIds :
            reqs' = [reqs EXCEPT ![p] = BeginConfirm(payments, t)]
       \/ \E type \in WebhookEventTypes, t \in TransactionIds :
            reqs' = [reqs EXCEPT ![p] = BeginWebhook(payments, type, t)]
    /\ UNCHANGED <<payments, tuition_paid, last, nops, enrollments, uniqueIndex,
                   started, ereqs, clock, students, log, sessions, intents>>

\* db.query(Student).filter(Student.id == ...).first()
RaceReadStudent(p) ==
    /\ reqs[p].pc = "read_student"
    /\ reqs' = [reqs EXCEPT ![p].bal = tuition_paid[ReqStudent(reqs[p])],
                            ![p].pc = "commit"]
    /\ UNCHANGED <<payments, tuition_paid, last, nops, enrollments, uniqueIndex,
                   started, ereqs, clock, students, log, sessions, intents>>

RaceCommit(p) ==
    /\ reqs[p].pc = "commit"
    /\ LET r == CommitOf(payments, tuition_paid, reqs[p])
       IN /\ payments' = r.payments
          /\ tuition_paid' = r.tuition_paid
          /\ reqs' = [reqs EXCEPT ![p] = Done(reqs[p], r.code)]
          /\ last' = [op |-> reqs[p].op, code |-> r.code, detail |-> "-"]
    /\ UNCHANGED <<nops, enrollments, uniqueIndex, started, ereqs, clock, students, log, sessions, intents>>

\* the ledger after at most one create_payment, no request in flight
RaceInit ==
    /\ \/ payments = EmptyLedger /\ tuition_paid = ZeroBalances
       \/ \E payload \in RaceSetupPayloads :
            LET r == CreatePaymentFn(EmptyLedger, ZeroBalances, payload)
            IN payments = r.payments /\ tuition_paid = r.tuition_paid
    /\ last = NoLast
    /\ nops = 0
    /\ reqs = [p \in Procs |-> IdleReq]
    /\ enrollments = <<>>
    /\ uniqueIndex = FALSE
    /\ started = FALSE
    /\ ereqs = <<>>
    /\ clock = 0
    /\ students = AllStudents
    /\ log = {}
    /\ sessions = <<>>
    /\ intents = <<>>

RaceNext ==
    \E p \in Procs : RaceBegin(p) \/ RaceReadStudent(p) \/ RaceCommit(p)

SpecRace == RaceInit /\ [][RaceNext]_vars

----------------------------------------------------------------------------
(* Enrollments: db_maintenance.py and the enrollment handlers *)

Classes == {"c1", "c2"}
EnrollmentStatuses == {"active", "completed", "dropped", "failed"}
EnrollmentIds == 1..(MaxEnrollOps + 1)
EProcs == {"e1", "e2"}

NoEnrollment ==
    [student_id |-> "-", class_id |-> "-", status |-> "-",
     enrollment_date |-> 0, created_at |-> 0]

EmptyEnrollments == [i \in EnrollmentIds |-> NoEnrollment]

EExists(enr, id) == enr[id] # NoEnrollment

ActiveOf(enr, s) ==
    {i \in EnrollmentIds : EExists(enr, i) /\ enr[i].student_id = s /\ enr[i].status = "active"}

\* SELECT student_id ... WHERE status = 'active' GROUP BY student_id
\* HAVING COUNT(*) > 1
Duplicates(enr) == {s \in Students : Cardinality(ActiveOf(enr, s)) > 1}

\* f was enrolled after e, or at the same date and created after e
Later(e, f) ==
    \/ f.enrollment_date > e.enrollment_date
    \/ f.enrollment_date = e.enrollment_date /\ f.created_at > e.created_at

\* a cleanup_query that demotes only the earliest active row of a student
SupersededEarliestOnly(enr, i) ==
    /\ EExists(enr, i)
    /\ enr[i].status = "active"
    /\ \E j \in ActiveOf(enr, enr[i].student_id) : Later(enr[i], enr[j])
    /\ \A j \in ActiveOf(enr, enr[i].student_id) : ~Later(enr[j], enr[i])

\* a cleanup_query whose subquery does not compare the students
SupersededByAnyStudent(enr, i) ==
    /\ EExists(enr, i)
    /\ enr[i].status = "active"
    /\ \E j \in EnrollmentIds :
        EExists(enr, j) /\ enr[j].status = "active" /\ Later(enr[i], enr[j])

\* the WHERE clause of cleanup_query: an active row that a later active row
\* of the same student supersedes
Superseded(enr, i) ==
    /\ EExists(enr, i)
    /\ enr[i].status = "active"
    /\ \E j \in EnrollmentIds :
        /\ EExists(enr, j)
        /\ enr[j].student_id = enr[i].student_id
        /\ enr[j].status = "active"
        /\ \/ enr[j].enrollment_date > enr[i].enrollment_date
           \/ /\ enr[j].enrollment_date = enr[i].enrollment_date
              /\ enr[j].created_at > enr[i].created_at

\* cleanup_duplicate_enrollments reporting the students it cleaned instead of
\* the rows
CleanupCountingStudents(enr) ==
    LET enr2 == [i \in EnrollmentIds |->
                    IF EExists(enr, i) /\ enr[i].status = "active"
                       /\ \E j \in ActiveOf(enr, enr[i].student_id) : Later(enr[i], enr[j])
                    THEN [enr[i] EXCEPT !.status = "dropped"]
                    ELSE enr[i]]
        after == Cardinality(Duplicates(enr2))
    IN [enrollments |-> enr2,
        report |-> [duplicates_before |-> Cardinality(Duplicates(enr)),
                    cleaned |-> Cardinality(Duplicates(enr)) - after,
                    duplicates_after |-> after,
                    status |-> IF after = 0 THEN "success" ELSE "partial"]]

\* cleanup_duplicate_enrollments: the table it leaves and the report it returns
CleanupDuplicateEnrollments(enr) ==
    IF Duplicates(enr) = {}
    THEN [enrollments |-> enr,
          report |-> [duplicates_before |-> 0, cleaned |-> 0,
                      duplicates_after |-> 0, status |-> "success"]]
    ELSE LET cleaned == {i \in EnrollmentIds : Superseded(enr, i)}
             enr2 == [i \in EnrollmentIds |->
                        IF i \in cleaned THEN [enr[i] EXCEPT !.status = "dropped"]
                        ELSE enr[i]]
             after == Cardinality(Duplicates(enr2))
         IN [enrollments |-> enr2,
             report |-> [duplicates_before |-> Cardinality(Duplicates(enr)),
                         cleaned |-> Cardinality(cleaned),
                         duplicates_after |-> after,
                         status |-> IF after = 0 THEN "success" ELSE "partial"]]

\* ensure_unique_active_enrollment_constraint skipping the CREATE INDEX
EnsureIndexNever(enr, exists) == exists

\* ensure_unique_active_enrollment_constraint: the index exists afterwards
\* if it existed or CREATE UNIQUE INDEX found no duplicate
EnsureUniqueActiveEnrollmentConstraint(enr, exists) ==
    exists \/ Duplicates(enr) = {}

\* CREATE UNIQUE INDEX ... ON enrollments(student_id) WHERE status = 'active':
\* what a commit may leave when the index exists
IndexAllows(enr, index) == index => Duplicates(enr) = {}

EnrollPayloads ==
    {[studentId |-> s, classId |-> c] @@ st :
        s \in Students, c \in Classes, st \in Opt("status", EnrollmentStatuses)}

\* create_enrollment checking for an active enrollment only when the new one
\* is to be active
CheckedOnlyWhenActive(enr, payload) ==
    IF Get(payload, "status", "active") = "active"
    THEN ActiveOf(enr, payload["studentId"])
    ELSE {}

\* existing_enrollment: the rows the application-level check can return
ExistingEnrollment(enr, payload) == ActiveOf(enr, payload["studentId"])

\* the outcomes of the application-level check: the 400 naming the class of
\* the enrollment .first() returned, or none
CreateEnrollmentCheckResults(enr, payload) ==
    LET existing == ExistingEnrollment(enr, payload)
    IN IF existing # {}
       THEN {[code |-> "400", detail |-> enr[e].class_id] : e \in existing}
       ELSE {[code |-> "pass", detail |-> "-"]}

IdleEReq == [pc |-> "idle", payload |-> <<>>]

\* the INSERT of create_enrollment and its commit
CreateEnrollmentCommit(enr, index, payload, now, created) ==
    LET free == {i \in EnrollmentIds : ~EExists(enr, i)}
        id == CHOOSE i \in free : \A j \in free : i <= j
        row == [student_id |-> payload["studentId"],
                class_id |-> payload["classId"],
                status |-> Get(payload, "status", "active"),
                enrollment_date |-> now,
                created_at |-> created]
        enr2 == [enr EXCEPT ![id] = row]
    IN IF IndexAllows(enr2, index)
       THEN [enrollments |-> enr2, code |-> "200", detail |-> "-"]
       ELSE [enrollments |-> enr, code |-> "500", detail |-> "Failed to create enrollment"]

\* create_enrollment served alone: the outcomes of the whole handler
CreateEnrollmentFn(enr, index, payload, now, created) ==
    {IF c.code = "400"
     THEN [enrollments |-> enr, code |-> c.code, detail |-> c.detail]
     ELSE CreateEnrollmentCommit(enr, index, payload, now, created) :
        c \in CreateEnrollmentCheckResults(enr, payload)}

UpdateEnrollmentPayloads == Opt("status", EnrollmentStatuses \cup {""})

\* update_enrollment: enrollment.status = _ES(new_status) if new_status
UpdateEnrollmentFn(enr, index, id, payload) ==
    IF ~EExists(enr, id)
    THEN [enrollments |-> enr, code |-> "404"]
    ELSE LET new == IF "status" \in DOMAIN payload /\ payload["status"] # ""
                    THEN payload["status"] ELSE enr[id].status
             enr2 == [enr EXCEPT ![id].status = new]
         IN IF IndexAllows(enr2, index)
            THEN [enrollments |-> enr2, code |-> "200"]
            ELSE [enrollments |-> enr, code |-> "500"]

----------------------------------------------------------------------------
(* The enrollment requests *)

EUnchanged == UNCHANGED <<payments, tuition_paid, reqs, students, log, sessions, intents>>

\* startup_event: run_startup_maintenance cleans the duplicates up, then
\* ensures the index
RunStartupMaintenance ==
    /\ ~started
    /\ LET c == CleanupDuplicateEnrollments(enrollments)
       IN /\ enrollments' = c.enrollments
          /\ uniqueIndex' = EnsureUniqueActiveEnrollmentConstraint(c.enrollments, uniqueIndex)
    /\ started' = TRUE
    /\ UNCHANGED <<last, nops, ereqs, clock>>
    /\ EUnchanged

\* create_enrollment up to the application-level check: the request is
\* answered with the conflict, or goes on to the INSERT
CreateEnrollmentCheck(p) ==
    /\ started
    /\ nops < MaxEnrollOps
    /\ ereqs[p].pc = "idle"
    /\ \E payload \in EnrollPayloads :
        \E c \in CreateEnrollmentCheckResults(enrollments, payload) :
            IF c.code = "400"
            THEN /\ last' = [op |-> "create_enrollment", code |-> c.code,
                             detail |-> c.detail]
                 /\ UNCHANGED ereqs
            ELSE /\ ereqs' = [ereqs EXCEPT ![p] = [pc |-> "checked", payload |-> payload]]
                 /\ UNCHANGED last
    /\ nops' = nops + 1
    /\ UNCHANGED <<enrollments, uniqueIndex, started, clock>>
    /\ EUnchanged

\* the two utcnow() calls, db.add, db.commit and the response of
\* create_enrollment
CreateEnrollmentCommitStep(p) ==
    /\ ereqs[p].pc = "checked"
    /\ \E now \in clock..MaxClock, created \in clock..MaxClock :
        /\ now <= created
        /\ created <= clock + 1
        /\ LET r == CreateEnrollmentCommit(enrollments, uniqueIndex, ereqs[p].payload,
                                           now, created)
           IN /\ enrollments' = r.enrollments
              /\ last' = [op |-> "create_enrollment", code |-> r.code,
                          detail |-> r.detail]
              /\ clock' = created
    /\ ereqs' = [ereqs EXCEPT ![p] = IdleEReq]
    /\ UNCHANGED <<nops, uniqueIndex, started>>
    /\ EUnchanged

UpdateEnrollment ==
    /\ started
    /\ nops < MaxEnrollOps
    /\ \E id \in EnrollmentIds, payload \in UpdateEnrollmentPayloads :
        LET r == UpdateEnrollmentFn(enrollments, uniqueIndex, id, payload)
        IN /\ enrollments' = r.enrollments
           /\ last' = [op |-> "update_enrollment", code |-> r.code, detail |-> "-"]
    /\ nops' = nops + 1
    /\ UNCHANGED <<uniqueIndex, started, ereqs, clock>>
    /\ EUnchanged

\* POST /admin/maintenance/cleanup-enrollments
AdminCleanupEnrollments ==
    /\ started
    /\ nops < MaxEnrollOps
    /\ LET c == CleanupDuplicateEnrollments(enrollments)
       IN /\ enrollments' = c.enrollments
          /\ last' = [op |-> "cleanup_duplicate_enrollments", code |-> c.report.status,
                      detail |-> "-"]
    /\ nops' = nops + 1
    /\ UNCHANGED <<uniqueIndex, started, ereqs, clock>>
    /\ EUnchanged

\* the enrollment of an earlier year, completed since
PastEnrollment ==
    [student_id |-> "s1", class_id |-> "c1", status |-> "completed",
     enrollment_date |-> 0, created_at |-> 0]

\* a database with no enrollment yet, or with one past enrollment, before the
\* startup event
EnrollInit ==
    /\ payments = EmptyLedger
    /\ tuition_paid = ZeroBalances
    /\ last = NoLast
    /\ nops = 0
    /\ reqs = <<>>
    /\ enrollments \in {EmptyEnrollments, [EmptyEnrollments EXCEPT ![1] = PastEnrollment]}
    /\ uniqueIndex = FALSE
    /\ started = FALSE
    /\ ereqs = [p \in EProcs |-> IdleEReq]
    /\ clock = 0
    /\ students = AllStudents
    /\ log = {}
    /\ sessions = <<>>
    /\ intents = <<>>

EnrollNext ==
    \/ RunStartupMaintenance
    \/ \E p \in EProcs : CreateEnrollmentCheck(p)
    \/ \E p \in EProcs : CreateEnrollmentCommitStep(p)
    \/ UpdateEnrollment
    \/ AdminCleanupEnrollments

SpecEnroll == EnrollInit /\ [][EnrollNext]_vars

----------------------------------------------------------------------------
(* Properties of the ledger, checked under Spec *)

PaidTuition(pays, id) ==
    Exists(pays, id) /\ pays[id].payment_type = "tuition" /\ pays[id].status = "paid"

\* C1: after any sequence of committed operations every student's
\* tuition_paid equals the sum of the amounts of the student's paid tuition
\* entries.
C1_LedgerBalanceInvariant ==
    \A s \in Students : tuition_paid[s] = LedgerSum(payments, s)

\* C2: a gateway succeeded event applied a second time, by the webhook or by
\* the confirm path, leaves tuition_paid as the first application left it;
\* an event for an entry that is already paid adds nothing.
C2_GatewayEventIdempotent ==
    \A t \in TransactionIds :
        LET w == StripeWebhookFn(payments, tuition_paid, Succeeded, t)
            c == ConfirmStripePaymentFn(payments, tuition_paid, t)
            ww == StripeWebhookFn(w.payments, w.tuition_paid, Succeeded, t)
            wc == ConfirmStripePaymentFn(w.payments, w.tuition_paid, t)
            cw == StripeWebhookFn(c.payments, c.tuition_paid, Succeeded, t)
            cc == ConfirmStripePaymentFn(c.payments, c.tuition_paid, t)
        IN /\ ww.tuition_paid = w.tuition_paid
           /\ wc.tuition_paid = w.tuition_paid
           /\ cw.tuition_paid = c.tuition_paid
           /\ cc.tuition_paid = c.tuition_paid
           /\ (\E id \in FindByTransactionId(payments, t) : payments[id].status = "paid")
                => w.tuition_paid = tuition_paid /\ c.tuition_paid = tuition_paid

\* C3: for a pending tuition entry with transaction id t, webhook then
\* confirm ends in the same ledger and the same tuition_paid as confirm then
\* webhook.
C3_WebhookConfirmCommute ==
    \A t \in TransactionIds :
        (\E id \in FindByTransactionId(payments, t) :
            payments[id].payment_type = "tuition" /\ payments[id].status = "pending")
        => LET w == StripeWebhookFn(payments, tuition_paid, Succeeded, t)
               wc == ConfirmStripePaymentFn(w.payments, w.tuition_paid, t)
               c == ConfirmStripePaymentFn(payments, tuition_paid, t)
               cw == StripeWebhookFn(c.payments, c.tuition_paid, Succeeded, t)
           IN wc.payments = cw.payments /\ wc.tuition_paid = cw.tuition_paid

\* the payload that creates again the row a delete removed
SamePayload(row) ==
    [studentId |-> row.student_id, amount |-> row.amount,
     paymentType |-> row.payment_type, paymentMethod |-> "cash",
     status |-> row.status]
    @@ (IF row.transaction_id = NULL THEN <<>>
        ELSE [transactionId |-> row.transaction_id])

\* C9: deleting a paid tuition payment of amount A takes tuition_paid from B
\* to max(0, B - A), and creating the same payment again brings it back to B.
C9_DeleteThenRecreate ==
    \A id \in PaymentIds :
        PaidTuition(payments, id)
        => LET row == payments[id]
               B == tuition_paid[row.student_id]
               d == DeletePaymentFn(payments, tuition_paid, id)
               c == CreatePaymentFn(d.payments, d.tuition_paid, SamePayload(row))
           IN /\ d.tuition_paid[row.student_id] = Max(0, B - row.amount)
              /\ c.tuition_paid[row.student_id] = B

\* C10: create_payment adds exactly the amount to the student's tuition_paid
\* when the entry is created with type tuition and status paid, and leaves
\* every tuition_paid unchanged in every other case.
C10_CreatePaymentBalance ==
    \A payload \in CreatePayloads :
        LET r == CreatePaymentFn(payments, tuition_paid, payload)
            s == payload["studentId"]
        IN IF /\ payload["paymentType"] = "tuition"
              /\ "status" \in DOMAIN payload
              /\ payload["status"] = "paid"
              /\ r.code = "200"
           THEN r.tuition_paid = [tuition_paid EXCEPT ![s] = @ + payload["amount"]]
           ELSE r.tuition_paid = tuition_paid

\* a create_payment of a paid tuition entry has been served on a ledger that
\* already held a row, and one of a pending entry can follow
C10_Witness ==
    /\ last.op = "create_payment"
    /\ last.code = "200"
    /\ nops = 2
    /\ \E id \in PaymentIds :
        /\ PaidTuition(payments, id)
        /\ payments[id].amount = 2
        /\ tuition_paid[payments[id].student_id] >= 2
    /\ \E id \in PaymentIds :
        Exists(payments, id) /\ payments[id].status = "pending"

----------------------------------------------------------------------------
(* Properties of concurrent payment requests, checked under SpecRace *)

BothDone == \A p \in Procs : reqs[p].pc = "done"

\* C4: a webhook succeeded event and a confirm call for the same pending
\* tuition entry, their statements interleaved in any way, add the entry's
\* amount to tuition_paid exactly once.
C4_ConcurrentConfirmOnce ==
    \A p, q \in Procs :
        (/\ BothDone
         /\ reqs[p].op = "confirm_stripe_payment"
         /\ reqs[q].op = "stripe_webhook"
         /\ reqs[q].arg["type"] = Succeeded
         /\ reqs[q].arg["id"] = reqs[p].arg["paymentIntentId"]
         /\ reqs[q].row.payment_type = "tuition"
         /\ reqs[q].row.status = "pending")
        => tuition_paid[reqs[q].row.student_id]
             = reqs[q].row.amount
               + LedgerSum([payments EXCEPT ![reqs[q].id] = NoPayment],
                           reqs[q].row.student_id)

BalanceAffecting(req) ==
    \/ req.op = "create_payment" /\ CreatePaymentReadsStudent(req.arg)
    \/ req.op = "delete_payment" /\ DeletePaymentReadsStudent(req.row)

\* C5: two concurrent balance-affecting requests on one student (creates of
\* paid tuition entries, deletes of paid tuition entries) leave tuition_paid
\* equal to the balance before plus both deltas.
C5_NoLostUpdate ==
    \A p, q \in Procs :
        (/\ BothDone
         /\ p # q
         /\ BalanceAffecting(reqs[p]) /\ reqs[p].code = "200"
         /\ BalanceAffecting(reqs[q]) /\ reqs[q].code = "200"
         /\ reqs[p].op = "create_payment" \/ reqs[q].op = "create_payment")
        => \A s \in Students :
            tuition_paid[s] = LedgerSum(payments, s)

----------------------------------------------------------------------------
(* Properties of the enrollments, checked under SpecEnroll *)

\* C6: in every committed state reached by create_enrollment,
\* update_enrollment and cleanup_duplicate_enrollments from a table without
\* duplicates, each student has at most one active enrollment.
C6_AtMostOneActive ==
    \A s \in Students : Cardinality(ActiveOf(enrollments, s)) <= 1

\* update_enrollment tried to re-activate a past enrollment of a student
\* who has an active one, and the commit was refused
C6_Witness ==
    /\ last.op = "update_enrollment"
    /\ last.code = "500"
    /\ \E s \in Students :
        /\ Cardinality(ActiveOf(enrollments, s)) = 1
        /\ \E i \in EnrollmentIds :
            /\ EExists(enrollments, i)
            /\ enrollments[i].student_id = s
            /\ enrollments[i].status # "active"

\* C7: of the concurrent create_enrollment requests for one student that all
\* passed the application-level check, the first to commit succeeds and
\* leaves one active enrollment; every later one changes nothing and is
\* answered with the conflict of the application-level check, which names
\* the class of the active enrollment.  The case is that of two requests,
\* the other one having committed its enrollment.
C7_RaceLoserGetsConflict ==
    [][\A p \in EProcs :
        (/\ ereqs[p].pc = "checked"
         /\ ereqs'[p].pc = "idle"
         /\ Get(ereqs[p].payload, "status", "active") = "active")
        => LET s == ereqs[p].payload["studentId"]
               active == ActiveOf(enrollments, s)
           IN IF active = {}
              THEN /\ last'.code = "200"
                   /\ Cardinality(ActiveOf(enrollments', s)) = 1
              ELSE (nops = 2 /\ last.op = "create_enrollment" /\ last.code = "200")
                   => /\ enrollments' = enrollments
                      /\ last'.code = "400"
                      /\ \E e \in active : last'.detail = enrollments[e].class_id]_vars

\* C8: create_enrollment for a student who has an active enrollment answers
\* with the conflict naming the class of that enrollment and leaves the
\* table as it was, whatever classId and status the request carries.
C8_ConflictChangesNothing ==
    \A payload \in EnrollPayloads :
        LET active == ActiveOf(enrollments, payload["studentId"])
        IN active # {} =>
            \A r \in CreateEnrollmentFn(enrollments, uniqueIndex, payload, clock, clock) :
                /\ r.code = "400"
                /\ r.enrollments = enrollments
                /\ \E e \in active : r.detail = enrollments[e].class_id

\* a request was answered with the conflict naming the class of the
\* student's active enrollment, next to a past enrollment in another state
C8_Witness ==
    /\ last.op = "create_enrollment"
    /\ last.code = "400"
    /\ \E e \in EnrollmentIds :
        /\ EExists(enrollments, e)
        /\ enrollments[e].status = "active"
        /\ enrollments[e].class_id = last.detail
    /\ \E pe \in EnrollmentIds :
        /\ EExists(enrollments, pe)
        /\ enrollments[pe].status = "completed"

----------------------------------------------------------------------------
(* Properties of the steps of Spec *)

\* the step serves a request of the handler op
Served(op) == nops' = nops + 1 /\ last'.op = op

IfPaid(row) == IF row.status = "paid" THEN row.amount ELSE 0

\* C11: an update_payment that is carried out on a tuition payment (the one
\* row of the ledger the step may have changed), leaving its student and
\* its type as they were, sets tuition_paid to the balance
\* before, less the old amount if the old status was paid, plus the new
\* amount if the new status is paid; no other balance changes.
C11_UpdatePaymentBalance ==
    [][(Served("update_payment") /\ last'.code = "200")
       => \A id \in PaymentIds :
            LET old == payments[id]
                new == payments'[id]
            IN (/\ Exists(payments, id)
                /\ \A j \in PaymentIds \ {id} : payments'[j] = payments[j]
                /\ old.payment_type = "tuition"
                /\ new.payment_type = "tuition"
                /\ new.student_id = old.student_id)
               => tuition_paid' =
                    [tuition_paid EXCEPT ![old.student_id] = @ - IfPaid(old) + IfPaid(new)]]_vars

\* update_payment has replaced the amount of a paid tuition payment: the
\* balance is the new amount
C11_Witness ==
    /\ last.op = "update_payment"
    /\ last.code = "200"
    /\ \E id \in PaymentIds :
        /\ PaidTuition(payments, id)
        /\ payments[id].amount = 2
        /\ tuition_paid[payments[id].student_id] = 2
        /\ \A j \in PaymentIds \ {id} : ~Exists(payments, j)

\* the status changes of a payment the specification allows
AllowedTransitions ==
    {<<"pending", "paid">>, <<"pending", "cancelled">>, <<"paid", "cancelled">>,
     <<"paid", "refunded">>, <<"paid", "paid">>}

\* C12: no request changes the status of a payment otherwise than by an
\* allowed transition: update_payment, confirm_stripe_payment and
\* stripe_webhook reject every other change and leave the status as it was.
C12_OnlyAllowedTransitions ==
    [][\A id \in PaymentIds :
        (Exists(payments, id) /\ Exists(payments', id))
        => \/ payments'[id].status = payments[id].status
           \/ <<payments[id].status, payments'[id].status>> \in AllowedTransitions]_vars

\* C13: every financial mutation is atomic: a committed step changes the
\* sum of a student's paid tuition entries exactly when it changes the
\* student's tuition_paid; no step, failed ones included, leaves the ledger
\* changed with the balance stale or the balance changed with the ledger
\* unchanged.
C13_LedgerAndBalanceTogether ==
    [][\A s \in Students :
        (LedgerSum(payments', s) # LedgerSum(payments, s))
            <=> (tuition_paid'[s] # tuition_paid[s])]_vars

UniqueTransactionIds(pays) ==
    \A i, j \in PaymentIds :
        (i # j /\ Exists(pays, i) /\ Exists(pays, j) /\ pays[i].transaction_id # NULL)
            => pays[i].transaction_id # pays[j].transaction_id

----------------------------------------------------------------------------
(* Properties of the states of Spec *)

\* the update payloads that carry at most one key
SingleKeyUpdatePayloads == {p \in UpdatePayloads : Cardinality(DOMAIN p) <= 1}

\* C15: on every ledger, create_payment of a body that lacks studentId,
\* amount, paymentType or paymentMethod answers 400, and update_payment and
\* delete_payment of an id the ledger does not hold answer 404; the ledger
\* and every tuition_paid stay as they were.
C15_ValidationAndNotFound ==
    /\ \A payload \in IncompleteCreatePayloads :
        CreatePaymentFn(payments, tuition_paid, payload)
            = Result(payments, tuition_paid, "400")
    /\ \A id \in PaymentIds :
        ~Exists(payments, id) =>
            /\ DeletePaymentFn(payments, tuition_paid, id)
                = Result(payments, tuition_paid, "404")
            /\ \A payload \in SingleKeyUpdatePayloads :
                UpdatePaymentFn(payments, tuition_paid, id, payload)
                    = Result(payments, tuition_paid, "404")

\* a create_payment lacking a required field has been refused on a ledger
\* that holds a paid tuition payment
C15_Witness ==
    /\ last.op = "create_payment"
    /\ last.code = "400"
    /\ \E id \in PaymentIds :
        PaidTuition(payments, id) /\ tuition_paid[payments[id].student_id] > 0

----------------------------------------------------------------------------
(* create_student and update_student *)

\* values of a JSON number field that float() refuses: the empty string,
\* which update_student turns into 0.0 first, and any other text
EmptyString == -1
Malformed == -2

TuitionAmounts == 0..3

StudentResult(studs, pays, paid, code) ==
    [students |-> studs, payments |-> pays, tuition_paid |-> paid, code |-> code]

CreateStudentPayloads ==
    {a @@ p : a \in Opt("tuitionAmount", {1, 2, Malformed}), p \in Opt("tuitionPaid", {3})}

\* create_student: 'tuition_paid': 0.0, whatever the payload carries
CreateStudentFn(studs, pays, paid, id, payload) ==
    IF "tuitionAmount" \notin DOMAIN payload
    THEN StudentResult(studs, pays, paid, "400")
    ELSE IF payload["tuitionAmount"] = Malformed
    THEN StudentResult(studs, pays, paid, "500")
    ELSE StudentResult([studs EXCEPT ![id] = [tuition_amount |-> payload["tuitionAmount"]]],
                       pays, [paid EXCEPT ![id] = 0], "200")

UpdateStudentPayloads ==
    {a @@ p : a \in Opt("tuitionAmount", TuitionAmounts \cup {EmptyString, Malformed}),
              p \in Opt("tuitionPaid", {0, 3})}

\* update_student writing the tuitionPaid of the payload
UpdateStudentTakesPaid(studs, pays, paid, id, payload) ==
    IF studs[id] = NoStudent
    THEN StudentResult(studs, pays, paid, "404")
    ELSE StudentResult(studs, pays,
                       [paid EXCEPT ![id] = Get(payload, "tuitionPaid", paid[id])], "200")

\* update_student charging the raise of the tuition instead of what is left
\* to pay
UpdateStudentChargingRaise(studs, pays, paid, id, payload) ==
    IF studs[id] = NoStudent
    THEN StudentResult(studs, pays, paid, "404")
    ELSE IF "tuitionAmount" \notin DOMAIN payload \/ payload["tuitionAmount"] < 0
    THEN StudentResult(studs, pays, paid, "200")
    ELSE LET v == payload["tuitionAmount"]
             studs2 == [studs EXCEPT ![id].tuition_amount = v]
             pending == [student_id |-> id, amount |-> v - studs[id].tuition_amount,
                         payment_type |-> "tuition", status |-> "pending",
                         transaction_id |-> NULL]
         IN IF v > studs[id].tuition_amount
            THEN StudentResult(studs2, [pays EXCEPT ![NewId(pays)] = pending], paid, "200")
            ELSE StudentResult(studs2, pays, paid, "200")

\* update_student: the tuitionPaid key is dropped and tuition_paid is set
\* back to the value read at the start; a tuition raised above the old one
\* adds a pending tuition payment for what is left to pay.  A value float()
\* refuses lands in the handler's first except branch, which commits what
\* was assigned so far and answers with a message.
UpdateStudentFn(studs, pays, paid, id, payload) ==
    IF studs[id] = NoStudent
    THEN StudentResult(studs, pays, paid, "404")
    ELSE LET original_paid == paid[id]
             paid2 == [paid EXCEPT ![id] = original_paid]
             old_tuition == studs[id].tuition_amount
         IN IF "tuitionAmount" \notin DOMAIN payload
            THEN StudentResult(studs, pays, paid2, "200")
            ELSE LET v == payload["tuitionAmount"]
                 IN IF v = Malformed
                    THEN StudentResult(studs, pays, paid, "message")
                    ELSE IF v = EmptyString
                    THEN StudentResult([studs EXCEPT ![id].tuition_amount = 0],
                                       pays, paid2, "message")
                    ELSE LET studs2 == [studs EXCEPT ![id].tuition_amount = v]
                             new_balance == v - paid2[id]
                             pending == [student_id |-> id, amount |-> new_balance,
                                         payment_type |-> "tuition", status |-> "pending",
                                         transaction_id |-> NULL]
                         IN IF v > old_tuition /\ new_balance > 0
                            THEN StudentResult(studs2,
                                     [pays EXCEPT ![NewId(pays)] = pending], paid2, "200")
                            ELSE StudentResult(studs2, pays, paid2, "200")

StudentApply(op, r) ==
    /\ nops' = nops + 1
    /\ students' = r.students
    /\ payments' = r.payments
    /\ tuition_paid' = r.tuition_paid
    /\ last' = [op |-> op, code |-> r.code, detail |-> "-"]
    /\ UNCHANGED <<reqs, enrollments, uniqueIndex, started, ereqs, clock, log,
                   sessions, intents>>

\* str(uuid4()): the id of a student that is not registered yet
CreateStudent ==
    /\ nops < MaxOps
    /\ \E j \in Students : students[j] = NoStudent
    /\ \E payload \in CreateStudentPayloads :
        LET id == CHOOSE j \in Students : students[j] = NoStudent
        IN StudentApply("create_student",
                        CreateStudentFn(students, payments, tuition_paid, id, payload))

UpdateStudent ==
    /\ nops < MaxOps
    /\ \E id \in Students, payload \in UpdateStudentPayloads :
        StudentApply("update_student",
                     UpdateStudentFn(students, payments, tuition_paid, id, payload))

StudentPaymentPayloads ==
    {pl \in CreatePayloads :
        pl["paymentType"] = "tuition" /\ "transactionId" \notin DOMAIN pl}

\* create_payment for a registered student
StudentCreatePayment ==
    /\ nops < MaxOps
    /\ \E payload \in StudentPaymentPayloads :
        /\ students[payload["studentId"]] # NoStudent
        /\ Apply("create_payment", CreatePaymentFn(payments, tuition_paid, payload))

\* one registered student, no payment yet
StudentInit ==
    /\ payments = EmptyLedger
    /\ tuition_paid = ZeroBalances
    /\ last = NoLast
    /\ nops = 0
    /\ reqs = <<>>
    /\ enrollments = <<>>
    /\ uniqueIndex = FALSE
    /\ started = FALSE
    /\ ereqs = <<>>
    /\ clock = 0
    /\ students = [s \in Students |-> IF s = "s1" THEN [tuition_amount |-> 1] ELSE NoStudent]
    /\ log = {}
    /\ sessions = <<>>
    /\ intents = <<>>

StudentNext ==
    \/ CreateStudent
    \/ UpdateStudent
    \/ StudentCreatePayment

SpecStudent == StudentInit /\ [][StudentNext]_vars

\* C16: create_student and update_student never take tuition_paid from the
\* request: the student create_student registers has tuition_paid 0, and
\* update_student leaves every tuition_paid as it was, for every payload,
\* those that carry a tuitionPaid key included.
C16_TuitionPaidNotEditable ==
    /\ \A id \in Students, payload \in UpdateStudentPayloads :
        UpdateStudentFn(students, payments, tuition_paid, id, payload).tuition_paid
            = tuition_paid
    /\ \A id \in Students, payload \in CreateStudentPayloads :
        students[id] = NoStudent =>
            LET r == CreateStudentFn(students, payments, tuition_paid, id, payload)
            IN r.tuition_paid = [tuition_paid EXCEPT ![id] = 0]

\* update_student has raised the tuition of a student who has paid: the
\* pending payment for the rest is in the ledger and the balance is what the
\* paid entry made it
C16_Witness ==
    /\ last.op = "update_student"
    /\ last.code = "200"
    /\ \E id, j \in PaymentIds :
        /\ PaidTuition(payments, id)
        /\ tuition_paid[payments[id].student_id] = payments[id].amount
        /\ Exists(payments, j)
        /\ payments[j].status = "pending"
        /\ payments[j].student_id = payments[id].student_id
        /\ payments[j].amount = students[payments[id].student_id].tuition_amount
                                 - payments[id].amount

----------------------------------------------------------------------------
(* cleanup_duplicate_enrollments on the enrollments an earlier version of   *)
(* the service left behind                                                  *)

\* enrollments written before the unique index existed: active or completed,
\* created at or after their enrollment date as create_enrollment does
LegacyEnrollments ==
    {e \in [student_id : Students, class_id : {"c1"}, status : {"active", "completed"},
             enrollment_date : 0..MaxClock, created_at : 0..MaxClock] :
        e.enrollment_date <= e.created_at}

\* the ids name the rows in the order of their creation, and no id is skipped
InCreationOrder(enr) ==
    \A i, j \in EnrollmentIds :
        (i < j /\ EExists(enr, j)) =>
            EExists(enr, i) /\ enr[i].created_at <= enr[j].created_at

CleanupInit ==
    /\ payments = EmptyLedger
    /\ tuition_paid = ZeroBalances
    /\ last = NoLast
    /\ nops = 0
    /\ reqs = <<>>
    /\ enrollments \in [EnrollmentIds -> LegacyEnrollments \cup {NoEnrollment}]
    /\ InCreationOrder(enrollments)
    /\ uniqueIndex = FALSE
    /\ started = FALSE
    /\ ereqs = [p \in EProcs |-> IdleEReq]
    /\ clock = MaxClock
    /\ students = AllStudents
    /\ log = {}
    /\ sessions = <<>>
    /\ intents = <<>>

CleanupNext ==
    \/ RunStartupMaintenance
    \/ AdminCleanupEnrollments

SpecCleanup == CleanupInit /\ [][CleanupNext]_vars

\* C17: after cleanup_duplicate_enrollments every student who had more than
\* one active enrollment has exactly one left, the one with the latest
\* enrollment date, ties broken by the latest creation timestamp, and the
\* student's other formerly active enrollments are dropped.
C17_CleanupKeepsLatest ==
    \A s \in Students :
        LET was == ActiveOf(enrollments, s)
            c == CleanupDuplicateEnrollments(enrollments).enrollments
        IN Cardinality(was) > 1 =>
            \E k \in was :
                /\ ActiveOf(c, s) = {k}
                /\ \A j \in was : ~Later(enrollments[k], enrollments[j])
                /\ \A j \in was \ {k} : c[j].status = "dropped"

\* C18: cleanup_duplicate_enrollments run a second time right after a first
\* run changes no enrollment and reports zero rows cleaned.
C18_CleanupIdempotent ==
    LET first == CleanupDuplicateEnrollments(enrollments)
        second == CleanupDuplicateEnrollments(first.enrollments)
    IN /\ second.enrollments = first.enrollments
       /\ second.report.cleaned = 0

\* the cleanup of the startup demoted an enrollment, and the cleanup of the
\* admin endpoint ran next
C18_Witness ==
    /\ last.op = "cleanup_duplicate_enrollments"
    /\ nops = 1
    /\ \E i \in EnrollmentIds : EExists(enrollments, i) /\ enrollments[i].status = "dropped"

C35_CleanupFrame ==
    LET c == CleanupDuplicateEnrollments(enrollments).enrollments
    IN /\ \A i \in EnrollmentIds :
            c[i] # enrollments[i] =>
                /\ EExists(enrollments, i)
                /\ enrollments[i].status = "active"
                /\ enrollments[i].student_id \in Duplicates(enrollments)
                /\ c[i] = [enrollments[i] EXCEPT !.status = c[i].status]
       /\ \A s \in Students :
            ActiveOf(enrollments, s) # {} => ActiveOf(c, s) # {}

\* the cleanup of the startup demoted an enrollment of one student and left
\* that student one active enrollment, beside the single active enrollment
\* of the other student
C35_Witness ==
    /\ started
    /\ nops = 0
    /\ \E i, j, k \in EnrollmentIds :
        /\ EExists(enrollments, i) /\ EExists(enrollments, j) /\ EExists(enrollments, k)
        /\ enrollments[i].status = "dropped"
        /\ ActiveOf(enrollments, enrollments[i].student_id) = {j}
        /\ enrollments[k].student_id # enrollments[i].student_id
        /\ ActiveOf(enrollments, enrollments[k].student_id) = {k}

\* C36: once run_startup_maintenance has completed, no student has more
\* than one active enrollment and the unique index on the active enrollment
\* of a student is in place.
C36_StartupLeavesUnique ==
    started => (Duplicates(enrollments) = {} /\ uniqueIndex)

----------------------------------------------------------------------------
(* Properties of the steps of SpecEnroll *)

\* C20: an enrollment whose status is completed, dropped or failed is not
\* active after any step: no operation makes it active again.
C20_TerminalStaysTerminal ==
    [][\A i \in EnrollmentIds :
          (EExists(enrollments, i)
           /\ enrollments[i].status \in {"completed", "dropped", "failed"})
              => enrollments'[i].status # "active"]_vars

----------------------------------------------------------------------------
(* The academic session of a payment: get_session_from_date, the columns   *)
(* payment_date and academic_year, update_payment_sessions                 *)

Years == {2024, 2025}

\* a datetime, as far as get_session_from_date reads it
Dates == [year : Years, month : 1..12]
NoDate == [year |-> 0, month |-> 0]

\* f"{term} {year}"
Label(term, year) == [term |-> term, year |-> year]

\* academic_year NULL, and a label of the form the column comment gives
NoLabel == Label("NULL", 0)
LegacyLabel == Label("2024-2025", 0)

SessionLabels == {Label(t, y) : t \in {"Automne", "Hiver", "Été"}, y \in Years}

\* a get_session_from_date that counts the winter and the summer into the
\* school year that began the autumn before
GetSessionOfSchoolYear(date) ==
    IF 9 <= date.month /\ date.month <= 12
    THEN Label("Automne", date.year)
    ELSE IF 1 <= date.month /\ date.month <= 4
         THEN Label("Hiver", date.year - 1)
         ELSE Label("Été", date.year - 1)

GetSessionFromDate(date) ==
    IF 9 <= date.month /\ date.month <= 12
    THEN Label("Automne", date.year)
    ELSE IF 1 <= date.month /\ date.month <= 4
         THEN Label("Hiver", date.year)
         ELSE Label("Été", date.year)

NoSession == [payment_date |-> NoDate, academic_year |-> NoLabel]

\* the payments whose label update_payment_sessions replaces
Relabelled(pays, sess) ==
    {i \in PaymentIds :
        /\ Exists(pays, i)
        /\ sess[i].payment_date # NoDate
        /\ sess[i].academic_year # GetSessionFromDate(sess[i].payment_date)}

\* an update_payment_sessions that counts every payment it visits
UpdatePaymentSessionsCountingAll(pays, sess) ==
    [sessions |-> [i \in PaymentIds |->
                      IF i \in Relabelled(pays, sess)
                      THEN [sess[i] EXCEPT !.academic_year = GetSessionFromDate(sess[i].payment_date)]
                      ELSE sess[i]],
     updated |-> Cardinality({i \in PaymentIds : Exists(pays, i)}),
     total |-> Cardinality({i \in PaymentIds : Exists(pays, i)})]

\* update_payment_sessions: the labels it leaves, updated_count and
\* len(payments)
UpdatePaymentSessionsFn(pays, sess) ==
    [sessions |-> [i \in PaymentIds |->
                      IF i \in Relabelled(pays, sess)
                      THEN [sess[i] EXCEPT !.academic_year = GetSessionFromDate(sess[i].payment_date)]
                      ELSE sess[i]],
     updated |-> Cardinality(Relabelled(pays, sess)),
     total |-> Cardinality({i \in PaymentIds : Exists(pays, i)})]

\* update_payment: payment_date from the payload; the label recomputed when
\* the payload carries paymentDate, or when the label is empty
UpdatedSession(s, payload) ==
    LET d == Get(payload, "paymentDate", s.payment_date)
    IN [payment_date |-> d,
        academic_year |-> IF "paymentDate" \in DOMAIN payload \/ s.academic_year = NoLabel
                          THEN GetSessionFromDate(d)
                          ELSE s.academic_year]

SessionCreatePayloads ==
    {[studentId |-> "s1", amount |-> 1, paymentType |-> "tuition", paymentMethod |-> "cash"]
        @@ st : st \in Opt("status", {"paid"})}

SessionUpdatePayloads ==
    {st @@ d : st \in Opt("status", {"paid"}),
               d \in Opt("paymentDate", {[year |-> 2024, month |-> 12],
                                         [year |-> 2025, month |-> 1]})}

SessionApply(op, r, sess, detail) ==
    /\ nops' = nops + 1
    /\ payments' = r.payments
    /\ tuition_paid' = r.tuition_paid
    /\ sessions' = sess
    /\ last' = [op |-> op, code |-> r.code, detail |-> detail]
    /\ UNCHANGED <<reqs, enrollments, uniqueIndex, started, ereqs, clock, students, log,
                   intents>>

\* create_payment, with payment_date = datetime.utcnow() and academic_year =
\* get_session_from_date(payment_date)
SessionCreatePayment ==
    /\ nops < MaxOps
    /\ \E payload \in SessionCreatePayloads :
        LET r == CreatePaymentFn(payments, tuition_paid, payload)
        IN SessionApply("create_payment", r,
                        IF r.code = "200"
                        THEN [sessions EXCEPT ![NewId(payments)] =
                                [payment_date |-> clock,
                                 academic_year |-> GetSessionFromDate(clock)]]
                        ELSE sessions,
                        "-")

SessionUpdatePayment ==
    /\ nops < MaxOps
    /\ \E id \in PaymentIds, payload \in SessionUpdatePayloads :
        LET r == UpdatePaymentFn(payments, tuition_paid, id, payload)
        IN SessionApply("update_payment", r,
                        IF r.code = "200"
                        THEN [sessions EXCEPT ![id] = UpdatedSession(@, payload)]
                        ELSE sessions,
                        "-")

UpdatePaymentSessions ==
    /\ nops < MaxOps
    /\ LET u == UpdatePaymentSessionsFn(payments, sessions)
       IN SessionApply("update_payment_sessions",
                       Result(payments, tuition_paid, "200"), u.sessions, u.updated)

\* the dates and labels of a payment written before: a date at the turn of
\* a session with the label of any session, no label, or a school-year label
LegacySessions ==
    [payment_date : {d \in Dates : d.month \in {4, 5, 8, 9}},
     academic_year : SessionLabels \cup {NoLabel, LegacyLabel}]

\* the service at some month, with an empty ledger or one pending tuition
\* payment of s1 written before
SessionInit ==
    /\ \/ /\ payments = EmptyLedger
          /\ sessions = [i \in PaymentIds |-> NoSession]
       \/ /\ payments = [EmptyLedger EXCEPT ![1] =
                            [student_id |-> "s1", amount |-> 1, payment_type |-> "tuition",
                             status |-> "pending", transaction_id |-> NULL]]
          /\ \E s \in LegacySessions :
                sessions = [i \in PaymentIds |-> IF i = 1 THEN s ELSE NoSession]
    /\ tuition_paid = ZeroBalances
    /\ last = NoLast
    /\ nops = 0
    /\ reqs = <<>>
    /\ enrollments = <<>>
    /\ uniqueIndex = FALSE
    /\ started = FALSE
    /\ ereqs = <<>>
    /\ clock \in Dates
    /\ students = AllStudents
    /\ log = {}
    /\ intents = <<>>

SessionNext ==
    \/ SessionCreatePayment
    \/ SessionUpdatePayment
    \/ UpdatePaymentSessions

SpecSession == SessionInit /\ [][SessionNext]_vars

\* the payment the last create_payment wrote: ids are given out in order
LastCreated(pays) ==
    CHOOSE i \in PaymentIds : Exists(pays, i) /\ \A j \in PaymentIds : Exists(pays, j) => j <= i

\* C21: get_session_from_date gives every date a label, 'Automne y' for the
\* months 9 to 12, 'Hiver y' for 1 to 4 and 'Été y' for 5 to 8, y being the
\* calendar year of the date; the payment create_payment writes carries the
\* label of the month and year of the request.
C21_SessionOfDate ==
    /\ \A d \in Dates :
        LET l == GetSessionFromDate(d)
        IN /\ l \in SessionLabels
           /\ l.year = d.year
           /\ (9 <= d.month /\ d.month <= 12) => l.term = "Automne"
           /\ (1 <= d.month /\ d.month <= 4) => l.term = "Hiver"
           /\ (5 <= d.month /\ d.month <= 8) => l.term = "Été"
    /\ (last.op = "create_payment" /\ last.code = "200") =>
        LET s == sessions[LastCreated(payments)]
        IN /\ s.payment_date = clock
           /\ s.academic_year.year = clock.year
           /\ s.academic_year.term =
                IF clock.month >= 9 THEN "Automne"
                ELSE IF clock.month <= 4 THEN "Hiver" ELSE "Été"

\* a payment created in January 2025 is labelled Hiver 2025
C21_Witness ==
    /\ last.op = "create_payment"
    /\ last.code = "200"
    /\ clock = [year |-> 2025, month |-> 1]
    /\ sessions[LastCreated(payments)].academic_year = Label("Hiver", 2025)

\* C22: a run of update_payment_sessions leaves every payment the label
\* get_session_from_date gives its payment date, changes no date, no row of
\* the ledger and no balance, and a second run right after it would change
\* no label and report 0 payments updated.
C22_RelabelIdempotent ==
    [][Served("update_payment_sessions")
       => /\ payments' = payments
          /\ tuition_paid' = tuition_paid
          /\ \A i \in PaymentIds :
                Exists(payments, i) =>
                    /\ sessions'[i].payment_date = sessions[i].payment_date
                    /\ sessions'[i].academic_year = GetSessionFromDate(sessions[i].payment_date)
          /\ LET second == UpdatePaymentSessionsFn(payments', sessions')
             IN second.sessions = sessions' /\ second.updated = 0]_vars

\* update_payment_sessions replaced the label of one payment
C22_Witness ==
    /\ last.op = "update_payment_sessions"
    /\ last.detail = 1

----------------------------------------------------------------------------
(* The notification calls: a handler is a coroutine that runs without      *)
(* interruption up to an await of httpx.AsyncClient.post and goes on when   *)
(* the call has succeeded, failed or timed out                              *)

NotifyOutcomes == {"ok", "failed", "timeout"}

\* no request is suspended at an await
NoAwait == [pc |-> "idle", op |-> "-", committed |-> TRUE, pending |-> <<>>]

\* the request is suspended at the await of a notification call, with its
\* writes committed, or held in the session for the commit that follows
Awaiting(op, committed, pending) ==
    [pc |-> "awaiting", op |-> op, committed |-> committed, pending |-> pending]

NotifyResult(pays, paid, studs, lg, req, lst) ==
    [payments |-> pays, tuition_paid |-> paid, students |-> studs, log |-> lg,
     reqs |-> req, last |-> lst]

Answer(op, code, detail) == [op |-> op, code |-> code, detail |-> detail]

\* handlers that let the failure of the notification call reach the caller
ResumeSurfacingFailure(req, pays, paid, studs, lg, lst, outcome) ==
    IF req.committed
    THEN NotifyResult(pays, paid, studs, lg, NoAwait,
                      Answer(req.op, IF outcome = "ok" THEN "200" ELSE "500", "-"))
    ELSE NotifyResult(req.pending.payments, req.pending.tuition_paid, req.pending.students,
                      lg, Awaiting(req.op, TRUE, <<>>), lst)

\* the handler after the await: the except branch around the call prints a
\* line when the call failed or timed out; update_student suspended before
\* its commit commits and goes on to its second notification; every other
\* request returns its result
ResumeFn(req, pays, paid, studs, lg, lst, outcome) ==
    IF req.committed
    THEN NotifyResult(pays, paid, studs,
                      IF outcome = "ok" THEN lg ELSE lg \cup {"Failed to send notification"},
                      NoAwait, Answer(req.op, "200", "-"))
    ELSE NotifyResult(req.pending.payments, req.pending.tuition_paid, req.pending.students,
                      IF outcome = "ok" THEN lg ELSE lg \cup {"Erreur envoi notification parent"},
                      Awaiting(req.op, TRUE, <<>>), lst)

NotifyApply(r) ==
    /\ payments' = r.payments
    /\ tuition_paid' = r.tuition_paid
    /\ students' = r.students
    /\ log' = r.log
    /\ reqs' = r.reqs
    /\ last' = r.last
    /\ UNCHANGED <<enrollments, uniqueIndex, started, ereqs, clock, sessions, intents>>

\* a handler whose writes are committed: it awaits its notification when
\* notifies holds, and returns otherwise
Committed(op, r, notifies, detail) ==
    NotifyResult(r.payments, r.tuition_paid, students, log,
                 IF notifies THEN Awaiting(op, TRUE, <<>>) ELSE NoAwait,
                 IF notifies THEN last ELSE Answer(op, r.code, detail))

NotifyCreatePayloads ==
    {[studentId |-> "s1", amount |-> 1, paymentType |-> "tuition", paymentMethod |-> "card"]
        @@ st @@ tx : st \in Opt("status", {"paid"}),
                      tx \in Opt("transactionId", TransactionIds)}

\* create_payment: db.commit(), then the notification to the admin
NotifyCreatePayment ==
    /\ reqs.pc = "idle"
    /\ nops < MaxOps
    /\ nops' = nops + 1
    /\ \E payload \in NotifyCreatePayloads :
        LET r == CreatePaymentFn(payments, tuition_paid, payload)
        IN NotifyApply(Committed("create_payment", r, r.code = "200", "-"))

\* confirm_stripe_payment: db.commit(), then the notification
NotifyConfirmStripePayment ==
    /\ reqs.pc = "idle"
    /\ nops < MaxOps
    /\ nops' = nops + 1
    /\ \E t \in TransactionIds :
        LET r == ConfirmStripePaymentFn(payments, tuition_paid, t)
        IN NotifyApply(Committed("confirm_stripe_payment", r, r.code = "200", "-"))

\* stripe_webhook: for a succeeded event whose payment is found, db.commit()
\* and then the notification; for any other event {"status": "success"} at
\* once
NotifyStripeWebhook ==
    /\ reqs.pc = "idle"
    /\ nops < MaxOps
    /\ nops' = nops + 1
    /\ \E type \in WebhookEventTypes, t \in TransactionIds :
        LET r == StripeWebhookFn(payments, tuition_paid, type, t)
        IN NotifyApply(Committed("stripe_webhook", r,
                                 type = Succeeded /\ FindByTransactionId(payments, t) # {},
                                 [type |-> type, id |-> t]))

NotifyStudentPayloads == Opt("tuitionAmount", {1, 3})

\* update_student: when it has added the pending payment it awaits the
\* notification to the parent before db.commit(); otherwise it commits, and
\* awaits the notification of the changes if there are any
NotifyUpdateStudent ==
    /\ reqs.pc = "idle"
    /\ nops < MaxOps
    /\ nops' = nops + 1
    /\ \E id \in Students, payload \in NotifyStudentPayloads :
        LET r == UpdateStudentFn(students, payments, tuition_paid, id, payload)
        IN IF r.payments # payments
           THEN NotifyApply(NotifyResult(payments, tuition_paid, students, log,
                                         Awaiting("update_student", FALSE, r), last))
           ELSE NotifyApply(NotifyResult(r.payments, r.tuition_paid, r.students, log,
                                IF r.students # students
                                THEN Awaiting("update_student", TRUE, <<>>) ELSE NoAwait,
                                IF r.students # students
                                THEN last ELSE Answer("update_student", r.code, "-")))

\* the notification call ends
Resume ==
    /\ reqs.pc = "awaiting"
    /\ UNCHANGED nops
    /\ \E outcome \in NotifyOutcomes :
        NotifyApply(ResumeFn(reqs, payments, tuition_paid, students, log, last, outcome))

\* an empty ledger, or the pending payment of a payment intent
NotifyInit ==
    /\ payments \in {EmptyLedger,
                      [EmptyLedger EXCEPT ![1] =
                          [student_id |-> "s1", amount |-> 1, payment_type |-> "tuition",
                           status |-> "pending", transaction_id |-> "pi_1"]]}
    /\ tuition_paid = ZeroBalances
    /\ last = NoLast
    /\ nops = 0
    /\ reqs = NoAwait
    /\ enrollments = <<>>
    /\ uniqueIndex = FALSE
    /\ started = FALSE
    /\ ereqs = <<>>
    /\ clock = 0
    /\ students = AllStudents
    /\ log = {}
    /\ sessions = <<>>
    /\ intents = <<>>

NotifyNext ==
    \/ NotifyCreatePayment
    \/ NotifyConfirmStripePayment
    \/ NotifyStripeWebhook
    \/ NotifyUpdateStudent
    \/ Resume

SpecNotify == NotifyInit /\ [][NotifyNext]_vars

\* C23: when a notification call ends, the ledger, the balances, the
\* students, the position of the handler and the result it returns are what
\* they would be for each of the three outcomes of the call: success,
\* failure and timeout differ in nothing but the lines printed.
C23_NotificationOutcomeIrrelevant ==
    [][reqs.pc = "awaiting"
       => \A outcome \in NotifyOutcomes :
            LET r == ResumeFn(reqs, payments, tuition_paid, students, log, last, outcome)
            IN /\ payments' = r.payments
               /\ tuition_paid' = r.tuition_paid
               /\ students' = r.students
               /\ reqs' = r.reqs
               /\ last' = r.last]_vars

\* confirm_stripe_payment answered 200 with the payment paid and the balance
\* raised, although its notification call failed or timed out
C23_Witness ==
    /\ last.op = "confirm_stripe_payment"
    /\ last.code = "200"
    /\ "Failed to send notification" \in log
    /\ \E id \in PaymentIds :
        /\ PaidTuition(payments, id)
        /\ payments[id].transaction_id = "pi_1"
        /\ tuition_paid[payments[id].student_id] = payments[id].amount

\* C24: no request waits for a notification call while a write to the
\* ledger or to a balance is not committed yet.
C24_CommitBeforeNotification ==
    reqs.pc = "awaiting" => reqs.committed

\* C25: a stripe_webhook that is handed a succeeded event whose transaction
\* id no ledger entry carries prints a line or creates a paid entry with
\* that transaction id, and changes no existing entry and no balance.
C25_UnmatchedEventLeavesTrace ==
    [][\A t \in TransactionIds :
          (/\ reqs.pc = "idle" /\ reqs'.pc = "idle"
           /\ Served("stripe_webhook")
           /\ last'.detail = [type |-> Succeeded, id |-> t]
           /\ FindByTransactionId(payments, t) = {})
          => /\ \/ log' # log
                \/ \E i \in PaymentIds :
                      /\ ~Exists(payments, i)
                      /\ payments'[i].transaction_id = t
                      /\ payments'[i].status = "paid"
             /\ \A i \in PaymentIds : Exists(payments, i) => payments'[i] = payments[i]
             /\ tuition_paid' = tuition_paid]_vars

\* C37: a stripe_webhook that is handed an event of another type than
\* payment_intent.succeeded leaves every ledger entry and every student's
\* tuition_paid as they were.  (The step is the whole request: it is taken
\* with no request suspended and leaves none suspended, so that last' is
\* its answer.)
C37_OtherEventsChangeNothing ==
    [][(/\ reqs.pc = "idle" /\ reqs'.pc = "idle"
        /\ Served("stripe_webhook")
        /\ last'.detail.type # Succeeded)
       => (payments' = payments /\ tuition_paid' = tuition_paid)]_vars

\* stripe_webhook has answered a payment_failed event that names the pending
\* payment of the ledger, which is still pending
C37_Witness ==
    /\ last.op = "stripe_webhook"
    /\ last.detail = [type |-> "payment_intent.payment_failed", id |-> "pi_1"]
    /\ \E id \in PaymentIds :
        /\ Exists(payments, id)
        /\ payments[id].transaction_id = "pi_1"
        /\ payments[id].status = "pending"
    /\ tuition_paid = ZeroBalances

----------------------------------------------------------------------------
(* payments-fastapi: create_payment_intent and its stripe_webhook, which    *)
(* call create_payment of students-node                                     *)

IntentIds == {"pi_1", "pi_2"}
SessionIds == {"cs_1"}

\* the ids Stripe gives: a stripe_payments row carries one of them, in
\* stripe_payment_intent_id or in stripe_session_id
StripeRefs == IntentIds \cup SessionIds

\* paid_at NULL
NoTime == -1

\* a stripe_payments row together with the object Stripe keeps for it:
\* metadata.student_id, the amount in cents, the status of the row and its
\* paid_at
NoIntent == [student_id |-> "-", amount |-> 0, cents |-> 0, status |-> "-", paid_at |-> NoTime]

\* int(payment_data.amount * 100) and round(float(amount_cents) / 100.0, 2),
\* for amounts in whole currency units
ToCents(amount) == amount * 100
FromCents(cents) == cents \div 100

\* StripePayment(..., status="pending", ...): paid_at is not given
NewStripePayment(s, a) ==
    [student_id |-> s, amount |-> a, cents |-> ToCents(a), status |-> "pending",
     paid_at |-> NoTime]

\* the body create_payment_intent and create_checkout_session post to
\* students-node
PendingSyncPayload(s, a, t) ==
    [studentId |-> s, amount |-> a, paymentType |-> "tuition", paymentMethod |-> "card",
     status |-> "pending", transactionId |-> t]

\* the body the webhook posts to students-node for a succeeded intent
PaidSyncPayload(intent, t) ==
    [studentId |-> intent.student_id, amount |-> FromCents(intent.cents),
     paymentType |-> "tuition", paymentMethod |-> "card",
     status |-> "paid", transactionId |-> t]

\* the call of the webhook to students-node: POST /payments with the paid
\* body; the answer is not looked at
WebhookSync(pays, paid, intent, t) == CreatePaymentFn(pays, paid, PaidSyncPayload(intent, t))

\* session.get('payment_intent'): the intent Stripe made for the session
SessionIntent(cs) == "pi_of_cs"

\* a status written without paid_at
StatusOnly(row, status, now) == [row EXCEPT !.status = status]

\* payment.status = ...; paid_at = datetime.utcnow() when the status written
\* is "succeeded"
StatusWritten(row, status, now) ==
    [row EXCEPT !.status = status,
                !.paid_at = IF status = "succeeded" THEN now ELSE @]

GatewayApply(op, r, ints, detail) ==
    /\ nops' = nops + 1
    /\ payments' = r.payments
    /\ tuition_paid' = r.tuition_paid
    /\ intents' = ints
    /\ last' = [op |-> op, code |-> r.code, detail |-> detail]
    /\ UNCHANGED <<reqs, enrollments, uniqueIndex, started, ereqs, clock, students, log,
                   sessions>>

\* create_payment_intent: stripe.PaymentIntent.create, the stripe_payments
\* row, then POST /payments to students-node, which is reached or not
CreatePaymentIntent ==
    /\ nops < MaxOps
    /\ \E t \in IntentIds : intents[t] = NoIntent
    /\ \E s \in Students, a \in Amounts, reached \in BOOLEAN :
        LET t == CHOOSE x \in IntentIds :
                    intents[x] = NoIntent /\ (x = "pi_1" \/ intents["pi_1"] # NoIntent)
            r == IF reached
                 THEN CreatePaymentFn(payments, tuition_paid, PendingSyncPayload(s, a, t))
                 ELSE Result(payments, tuition_paid, "unreached")
        IN GatewayApply("create_payment_intent", r,
                        [intents EXCEPT ![t] = NewStripePayment(s, a)], t)

\* create_checkout_session: the Checkout Session, the stripe_payments row,
\* then POST /payments to students-node with the session id as transactionId
CreateCheckoutSession ==
    /\ nops < MaxOps
    /\ \E cs \in SessionIds, s \in Students, a \in Amounts, reached \in BOOLEAN :
        /\ intents[cs] = NoIntent
        /\ LET r == IF reached
                    THEN CreatePaymentFn(payments, tuition_paid, PendingSyncPayload(s, a, cs))
                    ELSE Result(payments, tuition_paid, "unreached")
           IN GatewayApply("create_checkout_session", r,
                           [intents EXCEPT ![cs] = NewStripePayment(s, a)], cs)

\* confirm_checkout_session: the row of a session Stripe reports paid or
\* complete is marked succeeded; then POST /payments to students-node with
\* the paid body, whatever Stripe reported
ConfirmCheckoutSession ==
    /\ nops < MaxOps
    /\ \E cs \in SessionIds, complete \in BOOLEAN, reached \in BOOLEAN :
        /\ intents[cs] # NoIntent
        /\ LET r == IF reached
                    THEN WebhookSync(payments, tuition_paid, intents[cs], SessionIntent(cs))
                    ELSE Result(payments, tuition_paid, "unreached")
           IN GatewayApply("confirm_checkout_session", r,
                           IF complete
                           THEN [intents EXCEPT ![cs] = StatusWritten(@, "succeeded", clock)]
                           ELSE intents,
                           cs)

StripeStatuses == {"pending", "succeeded", "failed", "canceled"}

\* update_payment_status: any status the body carries is written
UpdatePaymentStatus ==
    /\ nops < MaxOps
    /\ \E t \in StripeRefs, status \in StripeStatuses :
        IF intents[t] = NoIntent
        THEN GatewayApply("update_payment_status", Result(payments, tuition_paid, "404"),
                          intents, t)
        ELSE GatewayApply("update_payment_status", Result(payments, tuition_paid, "200"),
                          [intents EXCEPT ![t] = StatusWritten(@, status, clock)], t)

GatewayEventTypes == WebhookEventTypes \cup {"checkout.session.completed"}

\* stripe_webhook of payments-fastapi for an event of one of its intents or
\* sessions: payment_intent.succeeded marks the row and posts the paid body
\* to students-node, payment_intent.payment_failed marks the row failed,
\* checkout.session.completed marks the row and posts without a token,
\* which students-node refuses; any other event is answered at once
GatewayStripeWebhook ==
    /\ nops < MaxOps
    /\ \E type \in GatewayEventTypes, t \in StripeRefs, reached \in BOOLEAN :
        /\ intents[t] # NoIntent
        /\ type = "checkout.session.completed" <=> t \in SessionIds
        /\ IF type = Succeeded
           THEN LET r == IF reached
                         THEN WebhookSync(payments, tuition_paid, intents[t], t)
                         ELSE Result(payments, tuition_paid, "unreached")
                IN GatewayApply("gateway_webhook", r,
                                [intents EXCEPT ![t] = StatusWritten(@, "succeeded", clock)],
                                [type |-> type, id |-> t])
           ELSE /\ reached
                /\ GatewayApply("gateway_webhook", Result(payments, tuition_paid, "-"),
                        IF type = "payment_intent.payment_failed"
                        THEN [intents EXCEPT ![t] = StatusWritten(@, "failed", clock)]
                        ELSE IF type = "checkout.session.completed"
                        THEN [intents EXCEPT ![t] = StatusWritten(@, "succeeded", clock)]
                        ELSE intents,
                        [type |-> type, id |-> t])

\* the frontend confirms the payment of an intent at students-node
GatewayConfirm ==
    /\ nops < MaxOps
    /\ \E t \in IntentIds :
        /\ intents[t] # NoIntent
        /\ GatewayApply("confirm_stripe_payment",
                        ConfirmStripePaymentFn(payments, tuition_paid, t), intents, t)

GatewayInit ==
    /\ payments = EmptyLedger
    /\ tuition_paid = ZeroBalances
    /\ last = NoLast
    /\ nops = 0
    /\ reqs = <<>>
    /\ enrollments = <<>>
    /\ uniqueIndex = FALSE
    /\ started = FALSE
    /\ ereqs = <<>>
    /\ clock = 0
    /\ students = AllStudents
    /\ log = {}
    /\ sessions = <<>>
    /\ intents = [t \in StripeRefs |-> NoIntent]

GatewayNext ==
    \/ CreatePaymentIntent
    \/ CreateCheckoutSession
    \/ ConfirmCheckoutSession
    \/ UpdatePaymentStatus
    \/ GatewayStripeWebhook
    \/ GatewayConfirm

SpecGateway == GatewayInit /\ [][GatewayNext]_vars

\* C26: when the webhook of payments-fastapi has processed the succeeded
\* event of an intent for which students-node holds the pending payment,
\* and has reached students-node, students-node holds a paid payment with
\* the intent's transaction id and the student's tuition_paid has grown by
\* the amount of the payment.
C26_IntentThenWebhookPays ==
    [][\A t \in IntentIds :
          (/\ nops' = nops + 1
           /\ last'.op = "gateway_webhook"
           /\ last'.code # "unreached"
           /\ last'.detail = [type |-> Succeeded, id |-> t]
           /\ \E i \in FindByTransactionId(payments, t) : payments[i].status = "pending")
          => /\ \E i \in FindByTransactionId(payments', t) : payments'[i].status = "paid"
             /\ tuition_paid'[intents[t].student_id]
                  = tuition_paid[intents[t].student_id] + intents[t].amount]_vars

\* C39: in payments-fastapi a stripe_payments row whose status is succeeded
\* has paid_at set, and the row a payment intent or a checkout session has
\* just created is pending with paid_at unset.
C39_SucceededHasPaidAt ==
    /\ \A t \in StripeRefs : intents[t].status = "succeeded" => intents[t].paid_at # NoTime
    /\ \A t \in StripeRefs :
        (last.op \in {"create_payment_intent", "create_checkout_session"} /\ last.detail = t)
        => (intents[t].status = "pending" /\ intents[t].paid_at = NoTime)

\* update_payment_status has written succeeded on the row of a payment
\* intent, and the row has its paid_at
C39_Witness ==
    /\ last.op = "update_payment_status"
    /\ last.code = "200"
    /\ \E t \in IntentIds :
        /\ last.detail = t
        /\ intents[t].status = "succeeded"
        /\ intents[t].paid_at # NoTime

----------------------------------------------------------------------------
(* The student view: serialize_student, as get_student returns it *)

\* the ledger entries of a student: s.payments
PaymentsOf(pays, s) == {i \in PaymentIds : Exists(pays, i) /\ pays[i].student_id = s}

\* one turn of the loop over s.payments
Accumulated(acc, row) ==
    LET fees == IF row.payment_type \in DOMAIN acc.feesByType
                THEN acc.feesByType
                ELSE acc.feesByType @@ (row.payment_type :> [pending |-> 0, paid |-> 0])
    IN IF row.status = "paid"
       THEN [feesByType |-> [fees EXCEPT ![row.payment_type].paid = @ + row.amount],
             totalPending |-> acc.totalPending,
             totalPaid |-> acc.totalPaid + row.amount]
       ELSE IF row.status = "pending"
       THEN [feesByType |-> [fees EXCEPT ![row.payment_type].pending = @ + row.amount],
             totalPending |-> acc.totalPending + row.amount,
             totalPaid |-> acc.totalPaid]
       ELSE [feesByType |-> fees,
             totalPending |-> acc.totalPending,
             totalPaid |-> acc.totalPaid]

\* the loop over s.payments, in the order of the ids
RECURSIVE Breakdown(_, _, _)
Breakdown(pays, ids, acc) ==
    IF ids = {} THEN acc
    ELSE LET i == CHOOSE x \in ids : \A y \in ids : x <= y
         IN Breakdown(pays, ids \ {i}, Accumulated(acc, pays[i]))

\* a serialize_student that shows the paid tuition of the ledger as
\* tuitionPaid
SerializeStudentFromLedger(pays, paid, studs, s) ==
    LET b == Breakdown(pays, PaymentsOf(pays, s),
                       [feesByType |-> <<>>, totalPending |-> 0, totalPaid |-> 0])
    IN [id |-> s,
        tuitionAmount |-> studs[s].tuition_amount,
        tuitionPaid |-> LedgerSum(pays, s),
        feesByType |-> b.feesByType,
        totalPending |-> b.totalPending,
        totalPaid |-> b.totalPaid,
        totalBalance |-> b.totalPending]

SerializeStudent(pays, paid, studs, s) ==
    LET b == Breakdown(pays, PaymentsOf(pays, s),
                       [feesByType |-> <<>>, totalPending |-> 0, totalPaid |-> 0])
    IN [id |-> s,
        tuitionAmount |-> studs[s].tuition_amount,
        tuitionPaid |-> paid[s],
        feesByType |-> b.feesByType,
        totalPending |-> b.totalPending,
        totalPaid |-> b.totalPaid,
        totalBalance |-> b.totalPending]

\* get_student: the view of a registered student
GetStudent ==
    /\ nops < MaxOps
    /\ \E s \in Students :
        /\ students[s] # NoStudent
        /\ last' = [op |-> "get_student", code |-> "200",
                    detail |-> SerializeStudent(payments, tuition_paid, students, s)]
    /\ nops' = nops + 1
    /\ UNCHANGED <<payments, tuition_paid, reqs, enrollments, uniqueIndex, started, ereqs,
                   clock, students, log, sessions, intents>>

\* the ledgers the view is computed from: up to three entries of any
\* student, amount, type and status
ViewIds == 1..3
ViewRows ==
    [student_id : Students, amount : Amounts, payment_type : PaymentTypes,
     status : PaymentStatuses, transaction_id : {NULL}]

\* any such ledger, with any stored balance of s1: the balance the earlier
\* requests left need not be the sum of the ledger
ViewInit ==
    /\ payments \in [PaymentIds -> ViewRows \cup {NoPayment}]
    /\ \A i \in PaymentIds : Exists(payments, i) =>
            i \in ViewIds /\ \A j \in 1..(i - 1) : Exists(payments, j)
    /\ \E b \in 0..2 : tuition_paid = [ZeroBalances EXCEPT !["s1"] = b]
    /\ last = NoLast
    /\ nops = 0
    /\ reqs = <<>>
    /\ enrollments = <<>>
    /\ uniqueIndex = FALSE
    /\ started = FALSE
    /\ ereqs = <<>>
    /\ clock = 0
    /\ students = AllStudents
    /\ log = {}
    /\ sessions = <<>>
    /\ intents = <<>>

ViewNext == GetStudent

SpecView == ViewInit /\ [][ViewNext]_vars

\* the sum of the amounts of the entries of student s, type t and status st
SumOfStatus(pays, s, types, st) ==
    SumOver(pays, {i \in PaymentsOf(pays, s) :
                      pays[i].payment_type \in types /\ pays[i].status = st})

\* C27: in the view get_student returns, feesByType gives every payment
\* type that occurs among the student's entries the sum of the paid and the
\* sum of the pending entries of that type (a type without entries has no
\* key), cancelled and refunded entries add to neither, totalPaid and
\* totalPending are the sums over all types, and tuitionPaid is the stored
\* balance.
C27_ViewBreakdown ==
    last.op = "get_student" =>
        LET v == last.detail
            s == v.id
        IN /\ DOMAIN v.feesByType = {payments[i].payment_type : i \in PaymentsOf(payments, s)}
           /\ \A t \in DOMAIN v.feesByType :
                /\ v.feesByType[t].paid = SumOfStatus(payments, s, {t}, "paid")
                /\ v.feesByType[t].pending = SumOfStatus(payments, s, {t}, "pending")
           /\ v.totalPaid = SumOfStatus(payments, s, PaymentTypes, "paid")
           /\ v.totalPending = SumOfStatus(payments, s, PaymentTypes, "pending")
           /\ v.tuitionPaid = tuition_paid[s]

\* the view of a student with a paid, a pending and a cancelled tuition
\* entry, and a stored balance that is not the paid tuition of the ledger
C27_Witness ==
    /\ last.op = "get_student"
    /\ last.detail.id = "s1"
    /\ last.detail.feesByType = ("tuition" :> [pending |-> 1, paid |-> 2])
    /\ \E i \in PaymentIds :
        payments[i].student_id = "s1" /\ payments[i].status = "cancelled"
    /\ last.detail.tuitionPaid = 0

----------------------------------------------------------------------------
(* Properties of the states of Spec: the balance against the ledger *)

\* what the handlers that write tuition_paid can make of a state, over all
\* their inputs
HandlerResults(pays, paid) ==
    {CreatePaymentFn(pays, paid, payload) : payload \in CreatePayloads}
    \cup {UpdatePaymentFn(pays, paid, id, payload) :
                id \in PaymentIds, payload \in UpdatePayloads}
    \cup {DeletePaymentFn(pays, paid, id) : id \in PaymentIds}
    \cup {ConfirmStripePaymentFn(pays, paid, t) : t \in TransactionIds}
    \cup {StripeWebhookFn(pays, paid, type, t) : type \in WebhookEventTypes, t \in TransactionIds}

\* C28: in every state some operation of the service repairs the balances:
\* it leaves the ledger as it is and sets every student's tuition_paid to
\* the sum of the student's paid tuition entries.
C28_RepairAvailable ==
    \E r \in HandlerResults(payments, tuition_paid) :
        /\ r.payments = payments
        /\ \A s \in Students : r.tuition_paid[s] = LedgerSum(payments, s)

\* C30: no student's tuition_paid is negative.
C30_BalanceNeverNegative ==
    \A s \in Students : tuition_paid[s] >= 0

----------------------------------------------------------------------------
(* Properties of the states of SpecStudent *)

\* C29: update_student that raises the tuition of a student with balance P
\* to an amount above P adds one entry to the ledger, a pending tuition
\* payment of the student for the new amount less P, and leaves the balance
\* P; when the tuition is not raised, or the new amount is not above P, it
\* adds no entry.
C29_RaiseAddsPendingPayment ==
    \A id \in Students, payload \in UpdateStudentPayloads :
        students[id] # NoStudent =>
            LET r == UpdateStudentFn(students, payments, tuition_paid, id, payload)
                new == Get(payload, "tuitionAmount", students[id].tuition_amount)
                P == tuition_paid[id]
            IN IF new > students[id].tuition_amount /\ new - P > 0
               THEN /\ \E j \in PaymentIds :
                        /\ ~Exists(payments, j)
                        /\ r.payments = [payments EXCEPT ![j] =
                                [student_id |-> id, amount |-> new - P,
                                 payment_type |-> "tuition", status |-> "pending",
                                 transaction_id |-> NULL]]
                    /\ r.tuition_paid[id] = P
               ELSE r.payments = payments

\* the tuition of s1, who has paid 1, was raised from 1 to 3: the ledger
\* holds a pending tuition payment of 2 and the balance is still 1
C29_Witness ==
    /\ last.op = "update_student"
    /\ students["s1"].tuition_amount = 3
    /\ tuition_paid["s1"] = 1
    /\ \E i, j \in PaymentIds :
        /\ payments[i] = [student_id |-> "s1", amount |-> 1, payment_type |-> "tuition",
                           status |-> "paid", transaction_id |-> NULL]
        /\ payments[j] = [student_id |-> "s1", amount |-> 2, payment_type |-> "tuition",
                           status |-> "pending", transaction_id |-> NULL]


----------------------------------------------------------------------------
(* Properties of the states of Spec: update_payment moving a payment or    *)
(* changing its type                                                        *)

\* C31: update_payment that is carried out on a paid tuition payment of
\* student A with a payload naming another student B, the payment staying a
\* paid tuition payment, takes the old amount from A's tuition_paid and adds
\* the new amount to B's.
C31_MovedPaymentBalances ==
    \A id \in PaymentIds, payload \in UpdatePayloads :
        PaidTuition(payments, id) =>
            LET old == payments[id]
                new == UpdatedRow(old, payload)
                r == UpdatePaymentFn(payments, tuition_paid, id, payload)
            IN (/\ new.student_id # old.student_id
                /\ new.payment_type = "tuition"
                /\ new.status = "paid"
                /\ r.code = "200")
               => /\ r.tuition_paid[old.student_id]
                        = tuition_paid[old.student_id] - old.amount
                  /\ r.tuition_paid[new.student_id]
                        = tuition_paid[new.student_id] + new.amount

\* C32: update_payment that is carried out on a paid payment of a student,
\* leaving its student and its status, keeps the balance with the ledger:
\* from tuition to another type it takes the old amount from the student's
\* tuition_paid, and from another type to tuition it adds the new amount and
\* takes nothing.
C32_TypeChangeBalances ==
    \A id \in PaymentIds, payload \in UpdatePayloads :
        (Exists(payments, id) /\ payments[id].status = "paid") =>
            LET old == payments[id]
                new == UpdatedRow(old, payload)
                r == UpdatePaymentFn(payments, tuition_paid, id, payload)
                s == old.student_id
            IN (/\ new.student_id = s
                /\ new.status = "paid"
                /\ r.code = "200")
               => /\ (old.payment_type = "tuition" /\ new.payment_type # "tuition")
                        => r.tuition_paid[s] = tuition_paid[s] - old.amount
                  /\ (old.payment_type # "tuition" /\ new.payment_type = "tuition")
                        => r.tuition_paid[s] = tuition_paid[s] + new.amount

\* a ledger that holds a payment of another type than tuition, of any
\* student, amount and status, with or without a transaction id
OtherInit ==
    /\ \E s \in Students, a \in Amounts, st \in PaymentStatuses,
          t \in TransactionIds \cup {NULL} :
        payments = [i \in PaymentIds |->
            IF i = 1
            THEN [student_id |-> s, amount |-> a, payment_type |-> "other",
                  status |-> st, transaction_id |-> t]
            ELSE NoPayment]
    /\ tuition_paid = ZeroBalances
    /\ last = NoLast
    /\ nops = 0
    /\ reqs = <<>>
    /\ enrollments = <<>>
    /\ uniqueIndex = FALSE
    /\ started = FALSE
    /\ ereqs = <<>>
    /\ clock = 0
    /\ students = AllStudents
    /\ log = {}
    /\ sessions = <<>>
    /\ intents = <<>>

\* the requests that act on a payment the ledger holds
OtherNext ==
    \/ UpdatePayment
    \/ DeletePayment
    \/ ConfirmStripePayment
    \/ StripeWebhook

SpecOther == OtherInit /\ [][OtherNext]_vars

\* C33: on a payment whose type is not tuition, whatever its status and its
\* amount, update_payment with a payload that leaves the type other than
\* tuition, delete_payment, confirm_stripe_payment and the succeeded event
\* of stripe_webhook leave every student's tuition_paid as it was.
C33_NonTuitionLeavesBalance ==
    \A id \in PaymentIds :
        (Exists(payments, id) /\ payments[id].payment_type # "tuition") =>
            /\ \A payload \in UpdatePayloads :
                Get(payload, "paymentType", payments[id].payment_type) # "tuition"
                => UpdatePaymentFn(payments, tuition_paid, id, payload).tuition_paid
                        = tuition_paid
            /\ DeletePaymentFn(payments, tuition_paid, id).tuition_paid = tuition_paid
            /\ \A t \in TransactionIds :
                FindByTransactionId(payments, t) = {id} =>
                    /\ ConfirmStripePaymentFn(payments, tuition_paid, t).tuition_paid
                            = tuition_paid
                    /\ StripeWebhookFn(payments, tuition_paid, Succeeded, t).tuition_paid
                            = tuition_paid

\* confirm_stripe_payment has marked paid a payment of another type than
\* tuition, and the balance of its student is still 0
C33_Witness ==
    /\ last.op = "confirm_stripe_payment"
    /\ last.code = "200"
    /\ \E id \in PaymentIds :
        /\ Exists(payments, id)
        /\ payments[id].payment_type = "other"
        /\ payments[id].status = "paid"
        /\ payments[id].transaction_id \in TransactionIds
        /\ tuition_paid[payments[id].student_id] = 0

----------------------------------------------------------------------------
(* Properties of the states of SpecStudent: the pending payments of raises *)

\* the sum of the amounts of the student's pending tuition payments
PendingTuition(pays, s) ==
    SumOver(pays, {i \in PaymentIds : /\ Exists(pays, i)
                                      /\ pays[i].student_id = s
                                      /\ pays[i].payment_type = "tuition"
                                      /\ pays[i].status = "pending"})

\* the student is billed in pending tuition payments for no more than what
\* is left to pay
BilledWithinOutstanding(r, s) ==
    PendingTuition(r.payments, s) <= r.students[s].tuition_amount - r.tuition_paid[s]

\* C34: for a registered student with no pending tuition payment, after one
\* update_student that carries a tuitionAmount, and after a second one, the
\* sum of the student's pending tuition payments is at most tuition_amount
\* less tuition_paid.  (The ledger holds at most one payment, so that each
\* of the two calls finds a free id.)
C34_PendingWithinOutstanding ==
    \A s \in Students, p1, p2 \in UpdateStudentPayloads :
        (/\ students[s] # NoStudent
         /\ PendingTuition(payments, s) = 0
         /\ \A i \in PaymentIds \ {1} : ~Exists(payments, i)
         /\ "tuitionAmount" \in DOMAIN p1
         /\ "tuitionAmount" \in DOMAIN p2)
        => LET r1 == UpdateStudentFn(students, payments, tuition_paid, s, p1)
               r2 == UpdateStudentFn(r1.students, r1.payments, r1.tuition_paid, s, p2)
           IN BilledWithinOutstanding(r1, s) /\ BilledWithinOutstanding(r2, s)

----------------------------------------------------------------------------
(* Linking a student profile to a user account.  In SpecLink a students    *)
(* row carries the columns the link handlers read and write: user_id,      *)
(* student_code, parent_email and, as identity, first_name, last_name and  *)
(* date_of_birth taken together.  The handlers have no await: a request    *)
(* runs from its query to its commit before the next one starts.           *)

Users == {"u1", "u2"}
Emails == {"e1", "e2"}
Identities == {"n1", "n2"}

\* the email claim of the token of a user
UserEmail == [u1 |-> "e1", u2 |-> "e2"]

\* student_code: unique=True
StudentCode == [s1 |-> "STU1", s2 |-> "STU2"]
Codes == {"STU1", "STU2", "STU9", ""}

LinkResult(studs, code) == [students |-> studs, code |-> code]

\* user_id: unique=True, NULLs never collide
UserIdUnique(studs) ==
    \A a, b \in Students :
        (a # b /\ studs[a].user_id # NULL) => studs[a].user_id # studs[b].user_id

\* student.user_id = user_id; db.commit(), which the unique constraint can
\* refuse (rollback, 500)
LinkCommit(studs, s, user) ==
    LET studs2 == [studs EXCEPT ![s].user_id = user]
    IN IF UserIdUnique(studs2) THEN LinkResult(studs2, "200") ELSE LinkResult(studs, "500")

\* link_student_by_code writing the link whoever holds it
LinkStudentByCodeOverwriting(studs, code, user) ==
    LET found == {s \in Students : studs[s].student_code = code}
    IN IF code = "" THEN LinkResult(studs, "400")
       ELSE IF found = {} THEN LinkResult(studs, "404")
       ELSE LinkCommit(studs, CHOOSE s \in found : TRUE, user)

\* link_student_by_code: "Vérifier que le profil n'est pas déjà lié"
LinkStudentByCodeFn(studs, code, user) ==
    LET found == {s \in Students : studs[s].student_code = code}
    IN IF code = "" THEN LinkResult(studs, "400")
       ELSE IF found = {} THEN LinkResult(studs, "404")
       ELSE LET s == CHOOSE x \in found : TRUE
            IN IF studs[s].user_id # NULL /\ studs[s].user_id # user
               THEN LinkResult(studs, "409")
               ELSE LinkCommit(studs, s, user)

\* Student.parent_email == parent_email, Student.user_id.is_(None)
UnlinkedByEmail(studs, e) ==
    {s \in Students : studs[s].parent_email = e /\ studs[s].user_id = NULL}

\* first_name, last_name and date_of_birth match, Student.user_id.is_(None)
UnlinkedByInfo(studs, n) ==
    {s \in Students : studs[s].identity = n /\ studs[s].user_id = NULL}

LinkApply(op, r, detail) ==
    /\ nops' = nops + 1
    /\ students' = r.students
    /\ last' = [op |-> op, code |-> r.code, detail |-> detail]
    /\ UNCHANGED <<payments, tuition_paid, reqs, enrollments, uniqueIndex, started,
                   ereqs, clock, log, sessions, intents>>

\* the link of the row .first() returns: any of the rows the filter selects
LinkFirst(op, found, user, detail) ==
    IF user = NULL
    THEN LinkApply(op, LinkResult(students, "400"), detail)
    ELSE IF found = {}
    THEN LinkApply(op, LinkResult(students, "404"), detail)
    ELSE \E s \in found : LinkApply(op, LinkCommit(students, s, user), detail)

\* link_student_by_parent_email: userId comes with the payload
LinkStudentByParentEmail ==
    /\ nops < MaxOps
    /\ \E e \in Emails, u \in Users \cup {NULL} :
        LinkFirst("link_student_by_parent_email", UnlinkedByEmail(students, e), u,
                  [by |-> e, user |-> u])

\* link_student_by_student_info: userId comes with the payload
LinkStudentByStudentInfo ==
    /\ nops < MaxOps
    /\ \E n \in Identities, u \in Users \cup {NULL} :
        LinkFirst("link_student_by_student_info", UnlinkedByInfo(students, n), u,
                  [by |-> n, user |-> u])

\* link_student_by_code: the user is the one of the token
LinkStudentByCode ==
    /\ nops < MaxOps
    /\ \E c \in Codes, u \in Users :
        LinkApply("link_student_by_code", LinkStudentByCodeFn(students, c, u),
                  [by |-> c, user |-> u])

\* find_student_by_current_user: the profile linked to the user, or else
\* the auto-link of an unlinked profile whose parent_email is the user's
FindStudentByCurrentUser ==
    /\ nops < MaxOps
    /\ \E u \in Users :
        IF \E s \in Students : students[s].user_id = u
        THEN LinkApply("find_student_by_current_user", LinkResult(students, "200"),
                       [by |-> UserEmail[u], user |-> u])
        ELSE LinkFirst("find_student_by_current_user",
                       UnlinkedByEmail(students, UserEmail[u]), u,
                       [by |-> UserEmail[u], user |-> u])

\* two registered students, not linked yet
LinkInit ==
    /\ payments = EmptyLedger
    /\ tuition_paid = ZeroBalances
    /\ last = NoLast
    /\ nops = 0
    /\ reqs = <<>>
    /\ enrollments = <<>>
    /\ uniqueIndex = FALSE
    /\ started = FALSE
    /\ ereqs = <<>>
    /\ clock = 0
    /\ \E pe \in [Students -> Emails], idn \in [Students -> Identities] :
        students = [s \in Students |->
                        [user_id |-> NULL, student_code |-> StudentCode[s],
                         parent_email |-> pe[s], identity |-> idn[s]]]
    /\ log = {}
    /\ sessions = <<>>
    /\ intents = <<>>

LinkNext ==
    \/ LinkStudentByParentEmail
    \/ LinkStudentByStudentInfo
    \/ LinkStudentByCode
    \/ FindStudentByCurrentUser

SpecLink == LinkInit /\ [][LinkNext]_vars

\* C38: no link operation changes the user a student is linked to: in every
\* step a linked student keeps its user_id, and a link_student_by_code for
\* the code of a student linked to another user is answered 409 and leaves
\* the students as they were.
C38_LinkNeverReassigned ==
    [][/\ \A s \in Students :
            students[s].user_id # NULL => students'[s].user_id = students[s].user_id
       /\ \A s \in Students :
            (/\ Served("link_student_by_code")
             /\ last'.detail.by = students[s].student_code
             /\ students[s].user_id # NULL
             /\ students[s].user_id # last'.detail.user)
            => (last'.code = "409" /\ students' = students)]_vars

\* link_student_by_code of user u2 for the code of s1, who is linked to u1,
\* has been answered 409
C38_Witness ==
    /\ last.op = "link_student_by_code"
    /\ last.code = "409"
    /\ last.detail = [by |-> "STU1", user |-> "u2"]
    /\ students["s1"].user_id = "u1"
====
